---------------------------- MODULE Spec2Model ----------------------------
(***************************************************************************)
(* A model of the progress-tracking core of the I-CTF training             *)
(* application: ProgressManager (src/progress.py), the part of PathManager *)
(* that lists questions and resolves answers and hints                     *)
(* (src/I-CTF-Code/paths.py) and the handlers of CTFApplication that call  *)
(* them (src/I-CTF-Code/app.py).                                           *)
(*                                                                         *)
(* Python strings are sequences of one-character strings, so that          *)
(* startswith, split, replace and the f-strings of the source are computed *)
(* character by character.  Python's None is the one-element sequence      *)
(* PyNone, whose element is not a character.                               *)
(***************************************************************************)
EXTENDS Integers, Sequences, FiniteSets, TLC

(***************************************************************************)
(* Bounds of the model.                                                    *)
(***************************************************************************)
MaxAttempts == 2

MaxCompleted == 2

MaxHints == 1

MaxFaults == 1

(***************************************************************************)
(* Strings.                                                                *)
(***************************************************************************)
PyNone == <<"None">>

Truthy(x) == x # PyNone /\ x # <<>>

StrNone == <<"N", "o", "n", "e">>

Slash == <<"/">>

\* str(x) as an f-string renders it
Format(x) == IF x = PyNone THEN StrNone ELSE x

\* F(x) with x computed once, before the call, as Python computes an argument
Call(F(_), x) == CHOOSE y \in {F(v) : v \in {x}} : TRUE

StartsWith(s, p) == Len(p) <= Len(s) /\ SubSeq(s, 1, Len(p)) = p

EndsWith(s, p) == Len(p) <= Len(s) /\ SubSeq(s, Len(s) - Len(p) + 1, Len(s)) = p

\* s.find(p, from): the least 1-based index >= from where p occurs, 0 if none
Find(s, p, from) ==
    Call(LAMBDA a :
            LET hits == {i \in a[3]..(Len(a[1]) - Len(a[2]) + 1) :
                            SubSeq(a[1], i, i + Len(a[2]) - 1) = a[2]}
            IN  IF hits = {} THEN 0 ELSE CHOOSE i \in hits : \A j \in hits : i <= j,
         <<s, p, from>>)

Contains(s, p) == Find(s, p, 1) # 0

RECURSIVE Split(_, _)
\* s.split(c) for a one-character separator c
Split(s, c) ==
    Call(LAMBDA a :
            IF a[2] = 0 THEN <<a[1]>>
            ELSE <<SubSeq(a[1], 1, a[2] - 1)>> \o Split(SubSeq(a[1], a[2] + 1, Len(a[1])), c),
         <<s, Find(s, <<c>>, 1)>>)

RECURSIVE Replace(_, _, _)
\* s.replace(old, new), old not empty
Replace(s, old, new) ==
    Call(LAMBDA a :
            IF a[2] = 0 THEN a[1]
            ELSE SubSeq(a[1], 1, a[2] - 1) \o new
                    \o Replace(SubSeq(a[1], a[2] + Len(old), Len(a[1])), old, new),
         <<s, Find(s, old, 1)>>)

(***************************************************************************)
(* Names of the content tree and literals of the source.                   *)
(***************************************************************************)
GettingStarted == <<"G", "e", "t", "t", "i", "n", "g", " ", "S", "t", "a", "r", "t", "e", "d">>

Beginner == <<"B", "e", "g", "i", "n", "n", "e", "r">>

Intermediate == <<"I", "n", "t", "e", "r", "m", "e", "d", "i", "a", "t", "e">>

Advanced == <<"A", "d", "v", "a", "n", "c", "e", "d">>

Insane == <<"I", "n", "s", "a", "n", "e">>

Web == <<"W", "e", "b">>

WebTwo == <<"W", "e", "b", "2">>

\* a module directory that holds no difficulty directory
Crypto == <<"C", "r", "y", "p", "t", "o">>

TopicOne == <<"T", "o", "p", "i", "c", "1">>

TopicTen == <<"T", "o", "p", "i", "c", "1", "0">>

TopicTwo == <<"T", "o", "p", "i", "c", "2">>

TopicX == <<"T", "o", "p", "i", "c", "X">>

QuestionFile == <<"1", "_", "Q", ".", "t", "x", "t">>

(***************************************************************************)
(* Python dicts keyed by strings are functions; EmptyMap is {}.            *)
(***************************************************************************)
EmptyMap == [k \in {} |-> TRUE]

Put(m, k, v) == [x \in (DOMAIN m) \cup {k} |-> IF x = k THEN v ELSE m[x]]

Get(m, k, default) == IF k \in DOMAIN m THEN m[k] ELSE default


(***************************************************************************)
(* State.                                                                  *)
(*   stats, progress        ProgressManager.stats / .progress (in memory)  *)
(*   disk_stats             the file ctf_stats.json                        *)
(*   disk_progress          the file ctf_progress.json                     *)
(*   alive                  the process is running                         *)
(*   faults                 failed writes and kills so far                 *)
(*   op                     the last operation, its key and what it        *)
(*                          returned                                       *)
(*   current_module, current_difficulty, current_topic, current_page        *)
(*                          CTFApplication's navigation state              *)
(*   shown_difficulty       the difficulty the topics page was last shown  *)
(*                          for (the argument of show_topics_page)         *)
(*   question_widgets       CTFApplication.question_widgets: question file *)
(*                          name -> the panel whose widgets it holds       *)
(*   disabled               the panels whose entry and submit button are   *)
(*                          disabled                                       *)
(*   probe                  the arguments and the result of a function     *)
(*                          that is examined on its own                    *)
(*   paths                  PathManager.base_directory and                 *)
(*                          .topic_display_names, the memo of get_topics   *)
(*   config                 ConfigManager.config (in memory)               *)
(*   disk_config            the file ctf_config.json                       *)
(***************************************************************************)
VARIABLES stats, progress, disk_stats, disk_progress, alive, faults, op,
          current_module, current_difficulty, current_topic, current_page,
          shown_difficulty, question_widgets, disabled, probe,
          paths, config, disk_config

pmVars == <<stats, progress, disk_stats, disk_progress>>

cfgVars == <<paths, config, disk_config>>

appVars == <<current_module, current_difficulty, current_topic, current_page,
             shown_difficulty, question_widgets, disabled, probe, cfgVars>>

vars == <<stats, progress, disk_stats, disk_progress, alive, faults, op,
          current_module, current_difficulty, current_topic, current_page,
          shown_difficulty, question_widgets, disabled, probe,
          paths, config, disk_config>>

(***************************************************************************)
(* ProgressManager: the records and their files.                           *)
(***************************************************************************)
ZeroTotals == [total_attempts |-> 0, correct_attempts |-> 0]

DefaultStats == [attempts |-> EmptyMap, totals |-> ZeroTotals]

DefaultProgress == [completed |-> EmptyMap]

\* reset(), lines 460-477: the two records it installs
ResetStats_keeps_totals == [attempts |-> EmptyMap, totals |-> stats.totals]

ResetStats == [attempts |-> EmptyMap, totals |-> ZeroTotals]

ResetProgress == [completed |-> EmptyMap, hints_used |-> EmptyMap]

\* a file: absent, holding a JSON record, or cut short by a failed write
NoFile == [kind |-> "absent", data |-> <<>>]

TornFile == [kind |-> "torn", data |-> <<>>]

JsonFile(d) == [kind |-> "json", data |-> d]

WriteOutcomes == {"ok", "denied", "torn"}

\* with open(path, 'w') as f: json.dump(data, f), inside try/except:
\* written, or open() raises and the file stays, or dump() raises after
\* open() has truncated the file
WriteFile(file, data, w) ==
    CASE w = "ok" -> JsonFile(data)
      [] w = "denied" -> file
      [] OTHER -> TornFile

\* JSON that is not a record, here the list []; it is told from the
\* records by its one field, which no record of the model has
JsonList == [list |-> <<>>]

IsDict(value) == "list" \notin DOMAIN value

ValueFile == [kind |-> "value", data |-> JsonList]

\* a dict with a field added when it is missing
WithDefault(record, field, value) ==
    [f \in (DOMAIN record) \cup {field} |-> IF f \in DOMAIN record THEN record[f] ELSE value]

\* _load_stats: a record gets the fields it lacks; for [] the assignment
\* of a field raises, which is caught like every other error
LoadStats(file) ==
    IF file.kind = "json"
    THEN WithDefault(WithDefault(file.data, "attempts", EmptyMap), "totals", ZeroTotals)
    ELSE DefaultStats

\* _load_progress, in the same way
LoadProgress(file) ==
    IF file.kind = "json" THEN WithDefault(file.data, "completed", EmptyMap)
    ELSE DefaultProgress

\* the (dir_name, display_name) tuple that get_topics returns
TopicTuple(dir, display) == <<"tuple", dir, display>>

IsTopicTuple(topic) == Len(topic) = 3 /\ topic[1] = "tuple"

TopicDir(topic) == IF IsTopicTuple(topic) THEN topic[2] ELSE topic

_create_question_key_joined(module, difficulty, topic, question) ==
    IF Truthy(difficulty)
    THEN Format(module) \o Slash \o difficulty \o Slash \o Format(TopicDir(topic))
            \o Format(question)
    ELSE Format(module) \o Slash \o StrNone \o Slash \o Format(TopicDir(topic))
            \o Format(question)

_create_question_key(module, difficulty, topic, question) ==
    IF Truthy(difficulty)
    THEN Format(module) \o Slash \o difficulty \o Slash \o Format(TopicDir(topic))
            \o Slash \o Format(question)
    ELSE Format(module) \o Slash \o StrNone \o Slash \o Format(TopicDir(topic))
            \o Slash \o Format(question)

MissingParameters_module_only(module, topic, question) == ~Truthy(module)

\* "if not module or not topic or not question"
MissingParameters(module, topic, question) ==
    ~Truthy(module) \/ ~Truthy(topic) \/ ~Truthy(question)

\* record_attempt, lines 160-175, on the stats record
RecordAttemptStats_no_totals(st, key, is_correct) ==
    LET old == Get(st.attempts, key, [total |-> 0, correct |-> 0])
        new == [total |-> old.total + 1,
                correct |-> old.correct + (IF is_correct THEN 1 ELSE 0)]
    IN  [attempts |-> Put(st.attempts, key, new),
         totals |-> [total_attempts |-> st.totals.total_attempts + 1,
                     correct_attempts |-> st.totals.correct_attempts]]

RecordAttemptStats_always_correct(st, key, is_correct) ==
    LET old == Get(st.attempts, key, [total |-> 0, correct |-> 0])
        new == [total |-> old.total + 1, correct |-> old.correct + 1]
    IN  [attempts |-> Put(st.attempts, key, new),
         totals |-> [total_attempts |-> st.totals.total_attempts + 1,
                     correct_attempts |-> st.totals.correct_attempts
                                            + (IF is_correct THEN 1 ELSE 0)]]

RecordAttemptStats(st, key, is_correct) ==
    LET old == Get(st.attempts, key, [total |-> 0, correct |-> 0])
        new == [total |-> old.total + 1,
                correct |-> old.correct + (IF is_correct THEN 1 ELSE 0)]
    IN  [attempts |-> Put(st.attempts, key, new),
         totals |-> [total_attempts |-> st.totals.total_attempts + 1,
                     correct_attempts |-> st.totals.correct_attempts
                                            + (IF is_correct THEN 1 ELSE 0)]]

IsCompletedIn(pr, key) == Get(Get(pr, "completed", EmptyMap), key, FALSE)

IsHintUsedIn(pr, key) == Get(Get(pr, "hints_used", EmptyMap), key, FALSE)

\* a dict with one more entry under a field that may be missing
WithFlag(pr, field, key) ==
    [f \in (DOMAIN pr) \cup {field} |->
        IF f = field THEN Put(Get(pr, field, EmptyMap), key, TRUE) ELSE pr[f]]

\* mark_question_completed, lines 209-213, on the progress record
MarkCompletedProgress_toggle(pr, key) ==
    [f \in (DOMAIN pr) \cup {"completed"} |->
        IF f = "completed"
        THEN Put(Get(pr, "completed", EmptyMap), key, ~IsCompletedIn(pr, key))
        ELSE pr[f]]

MarkCompletedProgress_fresh(pr, key) ==
    [f \in (DOMAIN pr) \cup {"completed"} |->
        IF f = "completed" THEN Put(EmptyMap, key, TRUE) ELSE pr[f]]

MarkCompletedProgress(pr, key) == WithFlag(pr, "completed", key)

\* mark_hint_used, lines 508-512, on the progress record
MarkHintProgress(pr, key) == WithFlag(pr, "hints_used", key)

is_question_completed(module, difficulty, topic, question) ==
    IF MissingParameters(module, topic, question) THEN FALSE
    ELSE IsCompletedIn(progress, _create_question_key(module, difficulty, topic, question))

is_hint_used(module, difficulty, topic, question) ==
    IF MissingParameters(module, topic, question) THEN FALSE
    ELSE IsHintUsedIn(progress, _create_question_key(module, difficulty, topic, question))

\* correct / total as the pair of the two numbers, 0 as <<0, 1>>
Accuracy(correct, total) == IF total > 0 THEN <<correct, total>> ELSE <<0, 1>>

RECURSIVE SumField(_, _, _)
\* the sum of attempts[key][field] over the keys of a set
SumField(attempts, keys, field) ==
    IF keys = {} THEN 0
    ELSE LET key == CHOOSE k \in keys : TRUE
         IN  attempts[key][field] + SumField(attempts, keys \ {key}, field)

\* the loop "for key, stats in self.stats["attempts"].items():
\*               if key.startswith(prefix): ..." and the dict returned
PrefixStats(prefix) ==
    LET keys == {key \in DOMAIN stats.attempts : StartsWith(key, prefix)}
        total_attempts == SumField(stats.attempts, keys, "total")
        correct_attempts == SumField(stats.attempts, keys, "correct")
    IN  [total_attempts |-> total_attempts, correct_attempts |-> correct_attempts,
         accuracy |-> Accuracy(correct_attempts, total_attempts)]

get_question_stats(module, difficulty, topic, question) ==
    LET key == _create_question_key(module, difficulty, topic, question)
    IN  IF key \notin DOMAIN stats.attempts
        THEN [total |-> 0, correct |-> 0, accuracy |-> Accuracy(0, 0)]
        ELSE [total |-> stats.attempts[key].total,
              correct |-> stats.attempts[key].correct,
              accuracy |-> Accuracy(stats.attempts[key].correct, stats.attempts[key].total)]

\* the prefix is the key of the question "" without its last character
get_topic_stats(module, difficulty, topic) ==
    LET key == _create_question_key(module, difficulty, TopicDir(topic), <<>>)
    IN  PrefixStats(SubSeq(key, 1, Len(key) - 1))

get_difficulty_stats(module, difficulty) ==
    PrefixStats(Format(module) \o Slash \o Format(difficulty) \o Slash)

get_module_stats_no_slash(module) == PrefixStats(Format(module))

get_module_stats(module) == PrefixStats(Format(module) \o Slash)

get_overall_stats ==
    [total_attempts |-> stats.totals.total_attempts,
     correct_attempts |-> stats.totals.correct_attempts,
     accuracy |-> Accuracy(stats.totals.correct_attempts, stats.totals.total_attempts)]


(***************************************************************************)
(* ProgressManager: the operations.  Each takes the outcome of every file  *)
(* write it makes; a write that does not succeed uses up one fault.        *)
(***************************************************************************)
Cost(w) == IF w = "ok" THEN 0 ELSE 1

Args(module, difficulty, topic, question) ==
    [module |-> module, difficulty |-> difficulty, topic |-> topic, question |-> question]

KeyOf(a) == _create_question_key(a.module, a.difficulty, a.topic, a.question)

Done(name, key, ret) == [name |-> name, key |-> key, ret |-> ret]

\* the arguments ProgressManager is called with
DisplayName == <<"X", "S", "S">>

CallArgs ==
    { Args(Web, Beginner, TopicOne, QuestionFile),
      Args(Web, Beginner, TopicTen, QuestionFile),
      Args(WebTwo, PyNone, TopicOne, QuestionFile),
      Args(Web, Beginner, TopicTuple(TopicOne, DisplayName), QuestionFile),
      Args(Web, Beginner, TopicOne, <<>>) }

\* the calls that pass the check "if not module or not topic or not question"
ValidCallArgs == {a \in CallArgs : ~MissingParameters(a.module, a.topic, a.question)}

\* record_attempt: the stats record, the stats file and the value returned
RecordAttemptCall(st, file, a, is_correct, w) ==
    IF MissingParameters(a.module, a.topic, a.question)
    THEN [stats |-> st, file |-> file, ret |-> FALSE]
    ELSE LET updated == RecordAttemptStats(st, KeyOf(a), is_correct)
         IN  [stats |-> updated, file |-> WriteFile(file, updated, w), ret |-> TRUE]

\* mark_question_completed: the progress record, its file and the value returned
MarkCompletedCall(pr, file, a, w) ==
    IF MissingParameters(a.module, a.topic, a.question)
    THEN [progress |-> pr, file |-> file, ret |-> FALSE]
    ELSE LET updated == MarkCompletedProgress(pr, KeyOf(a))
         IN  [progress |-> updated, file |-> WriteFile(file, updated, w), ret |-> TRUE]

\* mark_hint_used: the progress record, its file and the value returned
MarkHintCall(pr, file, a, w) ==
    IF MissingParameters(a.module, a.topic, a.question)
    THEN [progress |-> pr, file |-> file, ret |-> FALSE]
    ELSE LET updated == MarkHintProgress(pr, KeyOf(a))
         IN  [progress |-> updated, file |-> WriteFile(file, updated, w), ret |-> TRUE]

\* a call that returns early writes nothing, so its write has no outcome to choose
Writes(a, w) == MissingParameters(a.module, a.topic, a.question) => w = "ok"

CompletedKeys(pr) == DOMAIN Get(pr, "completed", EmptyMap)

HintKeys(pr) == DOMAIN Get(pr, "hints_used", EmptyMap)

record_attempt(a, is_correct, w) ==
    LET r == RecordAttemptCall(stats, disk_stats, a, is_correct, w)
    IN  /\ alive
        /\ Writes(a, w)
        /\ r.stats.totals.total_attempts <= MaxAttempts
        /\ faults + Cost(w) <= MaxFaults
        /\ stats' = r.stats
        /\ disk_stats' = r.file
        /\ faults' = faults + Cost(w)
        /\ op' = Done("record_attempt", IF r.ret THEN KeyOf(a) ELSE <<>>, r.ret)
        /\ UNCHANGED <<progress, disk_progress, alive, appVars>>

mark_question_completed(a, w) ==
    LET r == MarkCompletedCall(progress, disk_progress, a, w)
    IN  /\ alive
        /\ Writes(a, w)
        /\ Cardinality(CompletedKeys(r.progress)) <= MaxCompleted
        /\ faults + Cost(w) <= MaxFaults
        /\ progress' = r.progress
        /\ disk_progress' = r.file
        /\ faults' = faults + Cost(w)
        /\ op' = Done("mark_question_completed", IF r.ret THEN KeyOf(a) ELSE <<>>, r.ret)
        /\ UNCHANGED <<stats, disk_stats, alive, appVars>>

mark_hint_used(a, w) ==
    LET r == MarkHintCall(progress, disk_progress, a, w)
    IN  /\ alive
        /\ Writes(a, w)
        /\ Cardinality(HintKeys(r.progress)) <= MaxHints
        /\ faults + Cost(w) <= MaxFaults
        /\ progress' = r.progress
        /\ disk_progress' = r.file
        /\ faults' = faults + Cost(w)
        /\ op' = Done("mark_hint_used", IF r.ret THEN KeyOf(a) ELSE <<>>, r.ret)
        /\ UNCHANGED <<stats, disk_stats, alive, appVars>>

\* reset(): both records replaced in memory, then the two files written
ResetEffect(w1, w2) ==
    /\ faults + Cost(w1) + Cost(w2) <= MaxFaults
    /\ stats' = ResetStats
    /\ progress' = ResetProgress
    /\ disk_stats' = WriteFile(disk_stats, stats', w1)
    /\ disk_progress' = WriteFile(disk_progress, progress', w2)
    /\ faults' = faults + Cost(w1) + Cost(w2)

reset(w1, w2) ==
    /\ alive
    /\ ResetEffect(w1, w2)
    /\ op' = Done("reset", <<>>, TRUE)
    /\ UNCHANGED <<alive, appVars>>


(***************************************************************************)
(* The content tree under the base directory.  A path is the sequence of   *)
(* its components from the base directory, which is the path Base.  Other  *)
(* is a second directory that can be chosen as base directory.             *)
(***************************************************************************)
Base == <<"base">>

\* a second content tree, and a directory that does not exist
Other == <<"other">>

Gone == <<"gone">>

Questions == <<"Q", "u", "e", "s", "t", "i", "o", "n", "s">>

Answers == <<"A", "n", "s", "w", "e", "r", "s">>

Hints == <<"H", "i", "n", "t", "s">>

PromptOrNot == <<"P", "r", "o", "m", "p", "t", " ", "o", "r", " ", "N", "o", "t">>

PromptStyle == <<"P", "r", "o", "m", "p", "t", " ", "S", "t", "y", "l", "e">>

AnswerFile == <<"1", "_", "A", "n", "s", "w", "e", "r", ".", "t", "x", "t">>

HintFile == <<"1", "_", "H", "i", "n", "t", ".", "t", "x", "t">>

NotesFile == <<"n", "o", "t", "e", "s", ".", "m", "d">>

CatOrDog == <<"c", "a", "t", "|", "D", "o", "g", "\n">>

\* a topic directory with its Questions, Answers and (when asked) Hints and
\* Prompt Style directories
TopicTree(at, withPrompt, withHints) ==
    {at, at \o <<Questions>>, at \o <<Answers>>}
    \cup (IF withPrompt THEN {at \o <<PromptOrNot>>, at \o <<PromptOrNot, PromptStyle>>} ELSE {})
    \cup (IF withHints THEN {at \o <<Hints>>} ELSE {})

TopicFiles(at, withPrompt, withHints) ==
    {at \o <<Questions, QuestionFile>>, at \o <<Questions, NotesFile>>,
     at \o <<Answers, AnswerFile>>}
    \cup (IF withPrompt THEN {at \o <<PromptOrNot, PromptStyle, QuestionFile>>} ELSE {})
    \cup (IF withHints THEN {at \o <<Hints, HintFile>>} ELSE {})

Dirs ==
    {Base, Base \o <<GettingStarted>>, Base \o <<Web>>, Base \o <<Web, Beginner>>,
     Base \o <<Web, Intermediate>>, Base \o <<Crypto>>}
    \cup TopicTree(Base \o <<GettingStarted, TopicOne>>, FALSE, FALSE)
    \cup TopicTree(Base \o <<Web, Beginner, TopicOne>>, TRUE, TRUE)
    \cup {Base \o <<Web, Intermediate, TopicOne>>,
          Base \o <<Web, Intermediate, TopicOne, Questions>>,
          Base \o <<Web, Intermediate, TopicOne, Hints>>}
    \cup TopicTree(Base \o <<Web, Intermediate, TopicTwo>>, FALSE, TRUE)
    \cup {Other, Other \o <<Web>>, Other \o <<Web, Beginner>>,
          Other \o <<Web, Beginner, TopicTen>>, Other \o <<Web, Beginner, TopicTwo>>,
          Other \o <<Web, Beginner, TopicX>>}

FilePaths ==
    TopicFiles(Base \o <<GettingStarted, TopicOne>>, FALSE, FALSE)
    \cup TopicFiles(Base \o <<Web, Beginner, TopicOne>>, TRUE, TRUE)
    \cup {Base \o <<Web, Intermediate, TopicOne, Questions, QuestionFile>>,
          Base \o <<Web, Intermediate, TopicOne, Hints, HintFile>>}
    \cup TopicFiles(Base \o <<Web, Intermediate, TopicTwo>>, FALSE, TRUE)

\* what f.read() returns for a file of the tree
FileContent(path) ==
    IF path[Len(path)] = AnswerFile THEN CatOrDog ELSE <<"h", "i">>

\* os.path.join, os.path.exists, os.path.isdir, os.listdir
Join(path, name) == Append(path, name)

Exists(path) == path \in Dirs \/ path \in FilePaths

IsDir(path) == path \in Dirs

ListDir(path) ==
    {q[Len(q)] : q \in {r \in Dirs \cup FilePaths : Len(r) = Len(path) + 1
                                               /\ SubSeq(r, 1, Len(path)) = path}}


(***************************************************************************)
(* More of Python's str: ordering, strip, lower, glob patterns.            *)
(***************************************************************************)
Ascii ==
    <<"\t", "\n", " ", "*", ".", "/", "0", "1", "2", "3", "4", "5", "6", "7", "8", "9",
      "A", "B", "C", "D", "E", "F", "G", "H", "I", "J", "K", "L", "M", "N", "O", "P", "Q",
      "R", "S", "T", "U", "V", "W", "X", "Y", "Z", "[", "]", "_",
      "a", "b", "c", "d", "e", "f", "g", "h", "i", "j", "k", "l", "m", "n", "o", "p", "q",
      "r", "s", "t", "u", "v", "w", "x", "y", "z", "{", "|", "}">>

Ord(c) == CHOOSE i \in DOMAIN Ascii : Ascii[i] = c

RECURSIVE StrLess(_, _)
\* a < b on str
StrLess(a, b) ==
    IF b = <<>> THEN FALSE
    ELSE IF a = <<>> THEN TRUE
    ELSE IF a[1] # b[1] THEN Ord(a[1]) < Ord(b[1])
    ELSE StrLess(Tail(a), Tail(b))

RECURSIVE SortedNames(_)
\* sorted(names)
SortedNames(names) ==
    IF names = {} THEN <<>>
    ELSE LET least == CHOOSE x \in names : \A y \in names : x = y \/ StrLess(x, y)
         IN  <<least>> \o SortedNames(names \ {least})

Whitespace == {" ", "\t", "\n"}

\* s.strip()
Strip(s) ==
    Call(LAMBDA a :
            LET inked == {i \in DOMAIN a : a[i] \notin Whitespace}
            IN  IF inked = {} THEN <<>>
                ELSE SubSeq(a, CHOOSE i \in inked : \A j \in inked : i <= j,
                               CHOOSE i \in inked : \A j \in inked : j <= i),
         s)

LowerChar(c) ==
    IF Ord(c) >= Ord("A") /\ Ord(c) <= Ord("Z") THEN Ascii[Ord(c) + (Ord("a") - Ord("A"))] ELSE c

\* s.lower()
Lower(s) == Call(LAMBDA a : [i \in DOMAIN a |-> LowerChar(a[i])], s)

RECURSIVE GlobMatch(_, _)
\* fnmatch of a file name against a pattern whose only wildcard is *
GlobMatch(name, pattern) ==
    IF pattern = <<>> THEN name = <<>>
    ELSE IF pattern[1] = "*"
         THEN \E i \in 1..(Len(name) + 1) : GlobMatch(SubSeq(name, i, Len(name)), Tail(pattern))
         ELSE name # <<>> /\ name[1] = pattern[1] /\ GlobMatch(Tail(name), Tail(pattern))

(***************************************************************************)
(* PathManager.                                                            *)
(***************************************************************************)
base_directory == Base

DotTxt == <<".", "t", "x", "t">>

TopicPrefix == <<"T", "o", "p", "i", "c">>

get_module_path(module) ==
    IF ~Truthy(base_directory) \/ ~Truthy(module) THEN PyNone
    ELSE LET module_path == Join(base_directory, module)
         IN  IF ~Exists(module_path) \/ ~IsDir(module_path) THEN PyNone ELSE module_path

get_difficulty_path(module, difficulty) ==
    IF module = GettingStarted \/ ~Truthy(difficulty) THEN get_module_path(module)
    ELSE LET module_path == get_module_path(module)
         IN  IF ~Truthy(module_path) THEN PyNone
             ELSE LET difficulty_path == Join(module_path, difficulty)
                  IN  IF ~Exists(difficulty_path) \/ ~IsDir(difficulty_path) THEN PyNone
                      ELSE difficulty_path

get_topic_path(module, difficulty, topic) ==
    IF ~Truthy(topic) THEN PyNone
    ELSE LET difficulty_path == get_difficulty_path(module, difficulty)
         IN  IF ~Truthy(difficulty_path) THEN PyNone
             ELSE LET topic_path == Join(difficulty_path, TopicDir(topic))
                  IN  IF ~Exists(topic_path) \/ ~IsDir(topic_path) THEN PyNone ELSE topic_path

\* the (dir_name, display_name) tuples of get_topics, as a set
get_topics(module, difficulty) ==
    IF ~Truthy(module) THEN {}
    ELSE LET path == get_difficulty_path(module, difficulty)
         IN  IF Truthy(path) /\ Exists(path)
             THEN {TopicTuple(item, item) :
                      item \in {i \in ListDir(path) :
                                   IsDir(Join(path, i)) /\ StartsWith(i, TopicPrefix)}}
             ELSE {}

Digits == {"0", "1", "2", "3", "4", "5", "6", "7", "8", "9"}

RECURSIVE ToInt(_)
\* int(s) for a string of digits
ToInt(s) ==
    IF s = <<>> THEN 0
    ELSE ToInt(SubSeq(s, 1, Len(s) - 1)) * 10 + (Ord(s[Len(s)]) - Ord("0"))

\* the longest run of characters of a set that starts at index i of s
RunFrom(s, i, chars) ==
    SubSeq(s, i, (CHOOSE j \in i..(Len(s) + 1) :
                     /\ j = Len(s) + 1 \/ s[j] \notin chars
                     /\ \A k \in i..(j - 1) : s[k] \in chars) - 1)

\* the group (\d+) of a match of Topic\s*(\d+) that starts at index i,
\* empty when there is no match at i
TopicDigitsAt(s, i) ==
    IF ~StartsWith(SubSeq(s, i, Len(s)), TopicPrefix) THEN <<>>
    ELSE Call(LAMBDA from : RunFrom(s, from, Digits),
              i + Len(TopicPrefix) + Len(RunFrom(s, i + Len(TopicPrefix), Whitespace)))

\* the key of a directory name without a number (line 237)
NoNumberKey == 999

\* sort_key of get_topics: re.search takes the leftmost match
sort_key(topic_tuple) ==
    Call(LAMBDA dir_name :
            Call(LAMBDA matches :
                    IF matches = {} THEN NoNumberKey
                    ELSE ToInt(TopicDigitsAt(dir_name,
                                             CHOOSE i \in matches : \A j \in matches : i <= j)),
                 {i \in 1..Len(dir_name) : TopicDigitsAt(dir_name, i) # <<>>}),
         topic_tuple[2])

RECURSIVE SortByKey(_)
\* topics.sort(key=sort_key): ascending in the key, and stable, so topics
\* with equal keys keep the order they were appended in
SortByKey(topics) ==
    IF topics = <<>> THEN <<>>
    ELSE Call(LAMBDA first :
                 <<topics[first]>>
                    \o SortByKey(SubSeq(topics, 1, first - 1)
                                    \o SubSeq(topics, first + 1, Len(topics))),
              CHOOSE i \in DOMAIN topics :
                  /\ \A j \in DOMAIN topics : sort_key(topics[i]) <= sort_key(topics[j])
                  /\ \A j \in 1..(i - 1) : sort_key(topics[j]) # sort_key(topics[i]))

\* get_topics, lines 199-248, for the topic directories that os.listdir
\* returned in the order of listing; none of them holds a topic_name.txt
TopicsOfListing(listing) ==
    SortByKey([i \in DOMAIN listing |-> TopicTuple(listing[i], listing[i])])

TxtFiles(dir) ==
    IF Exists(dir) /\ IsDir(dir) THEN {item \in ListDir(dir) : EndsWith(item, DotTxt)} ELSE {}

Tagged(kind, names) == [i \in DOMAIN names |-> <<kind, names[i]>>]

\* the list of (question_type, question_file_name)
get_questions(module, difficulty, topic) ==
    IF ~Truthy(module) \/ ~Truthy(topic) THEN <<>>
    ELSE LET topic_path == get_topic_path(module, difficulty, topic)
         IN  IF ~Truthy(topic_path) THEN <<>>
             ELSE Tagged("regular", SortedNames(TxtFiles(Join(topic_path, Questions))))
                  \o Tagged("prompt",
                            SortedNames(TxtFiles(Join(Join(topic_path, PromptOrNot), PromptStyle))))

PSPrefix == <<"P", "S", "_">>

\* base_name[0] of an empty base_name raises; nothing catches it
IndexError == <<"raises", "IndexError">>

\* base_name.split('_')[0] if '_' in base_name else base_name[0]
Identifier(base_name) ==
    IF Contains(base_name, <<"_">>) THEN Split(base_name, "_")[1] ELSE <<base_name[1]>>

AnswerWord == <<"A", "n", "s", "w", "e", "r">>

QuestionWord == <<"Q", "u", "e", "s", "t", "i", "o", "n">>

HintWord == <<"H", "i", "n", "t">>

\* the first entry of a list of candidate names that exists in dir, as a
\* set of at most one name
RECURSIVE FirstExisting(_, _)
FirstExisting(dir, names) ==
    IF names = <<>> THEN {}
    ELSE IF Join(dir, names[1]) \in FilePaths THEN {names[1]}
    ELSE FirstExisting(dir, Tail(names))

\* what get_correct_answer can return: the files of os.listdir come in an
\* order the file system chooses, and the first match is read
get_correct_answer(module, difficulty, topic, question_file) ==
    Call(LAMBDA v :
            LET answers_dir == Join(v.topic_path, Answers)
                answer_files ==
                    {item \in ListDir(answers_dir) :
                        /\ StartsWith(item, Identifier(v.base_name) \o <<"_">>)
                        /\ Contains(item, AnswerWord)
                        /\ EndsWith(item, DotTxt)
                        /\ Join(answers_dir, item) \in FilePaths}
                possible_patterns ==
                    <<Replace(v.base_name, QuestionWord, AnswerWord),
                      v.base_name \o <<"_">> \o AnswerWord \o DotTxt,
                      Split(v.base_name, "_")[1] \o <<"_">> \o AnswerWord \o DotTxt,
                      v.base_name>>
            IN  IF ~Truthy(v.topic_path) THEN {PyNone}
                ELSE IF ~Exists(answers_dir) \/ ~IsDir(answers_dir) THEN {PyNone}
                ELSE IF v.base_name = <<>> THEN {IndexError}
                ELSE Call(LAMBDA found :
                             IF found = {} THEN {PyNone}
                             ELSE {Strip(FileContent(Join(answers_dir, f))) : f \in found},
                          IF answer_files # {} THEN answer_files
                          ELSE FirstExisting(answers_dir, possible_patterns)),
         [topic_path |-> get_topic_path(module, difficulty, topic),
          base_name |-> Replace(question_file, PSPrefix, <<>>)])

\* glob.glob for the first pattern of a list that matches a file
RECURSIVE FirstGlob(_, _)
FirstGlob(files, patterns) ==
    IF patterns = <<>> THEN {}
    ELSE LET matching_paths == {f \in files : GlobMatch(f, patterns[1])}
         IN  IF matching_paths # {} THEN matching_paths ELSE FirstGlob(files, Tail(patterns))

\* what get_hint_content can return; the identifier is taken before
\* anything else is looked at
get_hint_content(module, difficulty, topic, question_file) ==
    IF Replace(question_file, PSPrefix, <<>>) = <<>> THEN {IndexError}
    ELSE
    Call(LAMBDA v :
            LET hints_dir == Join(v.topic_path, Hints)
                hint_files == {f \in ListDir(hints_dir) : Join(hints_dir, f) \in FilePaths}
                matching_files == {f \in hint_files : StartsWith(f, v.identifier)}
                possible_patterns ==
                    <<v.identifier \o <<"_", "*">> \o DotTxt,
                      v.identifier \o <<"*">> \o DotTxt,
                      <<"*">> \o v.identifier \o <<"_", "*">> \o DotTxt,
                      <<"*", "_">> \o v.identifier \o <<"_", "*">> \o DotTxt,
                      v.base_name,
                      Replace(v.base_name, QuestionWord, HintWord),
                      v.base_name \o <<"_">> \o HintWord \o DotTxt,
                      v.identifier \o <<"_">> \o HintWord \o DotTxt,
                      v.identifier \o <<"_", "*">> \o DotTxt>>
            IN  IF ~Truthy(v.topic_path) THEN {PyNone}
                ELSE IF ~Exists(hints_dir) \/ ~IsDir(hints_dir) THEN {PyNone}
                ELSE Call(LAMBDA found :
                             IF found = {} THEN {PyNone}
                             ELSE {Strip(FileContent(Join(hints_dir, f))) : f \in found},
                          IF matching_files # {} THEN matching_files
                          ELSE FirstGlob(hint_files, possible_patterns)),
         [topic_path |-> get_topic_path(module, difficulty, topic),
          base_name |-> Replace(question_file, PSPrefix, <<>>),
          identifier |-> Identifier(Replace(question_file, PSPrefix, <<>>))])


(***************************************************************************)
(* The content tree does not change, so what PathManager returns for the   *)
(* arguments the application passes is computed once.                      *)
(***************************************************************************)
\* the function f as a table: TLC computes every value of it when the table
\* is built and looks the values up afterwards
Table(f) == f @@ EmptyMap

ModuleArgs == {PyNone, GettingStarted, Web, Crypto}

DifficultyArgs == {PyNone, Beginner, Intermediate, Advanced, Insane}

TopicArgs == {PyNone, TopicOne, TopicTwo}

FileArgs == {QuestionFile}

DifficultyPaths ==
    Table([m \in ModuleArgs, d \in DifficultyArgs |-> get_difficulty_path(m, d)])

TopicLists == Table([m \in ModuleArgs, d \in DifficultyArgs |-> get_topics(m, d)])

QuestionLists ==
    Table([m \in ModuleArgs, d \in DifficultyArgs, t \in TopicArgs |->
              get_questions(m, d, t)])

CorrectAnswers ==
    Table([m \in ModuleArgs, d \in DifficultyArgs, t \in TopicArgs, q \in FileArgs |->
              get_correct_answer(m, d, t, q)])

HintContents ==
    Table([m \in ModuleArgs, d \in DifficultyArgs, t \in TopicArgs, q \in FileArgs |->
              get_hint_content(m, d, t, q)])

(***************************************************************************)
(* CTFApplication: start, exit and navigation.                             *)
(***************************************************************************)
difficulties == <<Beginner, Intermediate, Advanced, Insane>>

\* no function is being examined
NoProbe == [name |-> "none"]

\* ConfigManager.load, lines 52-55: the configuration when there is no file
DefaultConfig == [base_directory |-> PyNone, directories |-> <<>>]

\* the configuration once the content tree has been chosen as base directory
BaseConfig == [base_directory |-> Base, directories |-> <<Base>>]

\* ConfigManager.load: whatever json.load returns is the configuration
LoadConfig(file) == IF file.kind \in {"json", "value"} THEN file.data ELSE DefaultConfig

\* PathManager.__init__
NewPaths(cfg) ==
    [base_directory |-> Get(cfg, "base_directory", PyNone), topic_display_names |-> EmptyMap]

\* CTFApplication.__init__ and the first page
AppStart ==
    /\ probe = NoProbe
    /\ current_module = PyNone
    /\ current_difficulty = PyNone
    /\ current_topic = PyNone
    /\ current_page = "modules"
    /\ shown_difficulty = PyNone
    /\ question_widgets = EmptyMap
    /\ disabled = {}
    /\ config = BaseConfig
    /\ disk_config = JsonFile(BaseConfig)
    /\ paths = NewPaths(BaseConfig)

Init ==
    /\ stats = DefaultStats
    /\ progress = DefaultProgress
    /\ disk_stats = NoFile
    /\ disk_progress = NoFile
    /\ alive = TRUE
    /\ faults = 0
    /\ op = Done("init", <<>>, TRUE)
    /\ AppStart

\* the process is gone and with it everything in memory
Stopped(name) ==
    /\ alive' = FALSE
    /\ stats' = DefaultStats
    /\ progress' = DefaultProgress
    /\ op' = Done(name, <<>>, FALSE)
    /\ current_module' = PyNone
    /\ current_difficulty' = PyNone
    /\ current_topic' = PyNone
    /\ current_page' = "modules"
    /\ shown_difficulty' = PyNone
    /\ question_widgets' = EmptyMap
    /\ disabled' = {}
    /\ UNCHANGED <<probe, cfgVars>>

\* the user closes the window
Exit ==
    /\ alive
    /\ Stopped("exit")
    /\ UNCHANGED <<disk_stats, disk_progress, faults>>

\* CTFApplication.__init__, lines 58-60: ConfigManager(), PathManager(config)
\* and ProgressManager() load the three files; self.config.get in
\* PathManager.__init__ raises when the configuration is not a record, and
\* the application does not start
Restart ==
    /\ ~alive
    /\ config' = LoadConfig(disk_config)
    /\ IF ~IsDict(config')
       THEN /\ op' = Done("restart", <<>>, FALSE)
            /\ UNCHANGED <<alive, stats, progress, paths>>
       ELSE /\ alive' = TRUE
            /\ paths' = NewPaths(config')
            /\ stats' = LoadStats(disk_stats)
            /\ progress' = LoadProgress(disk_progress)
            /\ op' = Done("restart", <<>>, TRUE)
    /\ UNCHANGED <<disk_stats, disk_progress, disk_config, faults, probe, current_module,
                   current_difficulty, current_topic, current_page, shown_difficulty,
                   question_widgets, disabled>>

\* the process is stopped inside reset(), after _save_stats and before _save_progress
reset_killed(w1) ==
    /\ alive
    /\ faults + Cost(w1) + 1 <= MaxFaults
    /\ disk_stats' = WriteFile(disk_stats, ResetStats, w1)
    /\ faults' = faults + Cost(w1) + 1
    /\ Stopped("reset_killed")
    /\ UNCHANGED disk_progress

\* self.modules as load_modules fills it
modules == {item \in ListDir(base_directory) : IsDir(Join(base_directory, item))}

\* clear_content_frame deletes the widgets of the page
LeavePage == disabled' = {}

show_modules_page ==
    /\ current_page' = "modules"
    /\ LeavePage
    /\ UNCHANGED <<shown_difficulty, question_widgets>>

show_difficulties_page ==
    /\ current_page' = "difficulties"
    /\ LeavePage
    /\ UNCHANGED <<shown_difficulty, question_widgets>>

show_topics_page(difficulty) ==
    /\ current_page' = "topics"
    /\ shown_difficulty' = difficulty
    /\ LeavePage
    /\ UNCHANGED question_widgets

\* the panel that question_widgets holds for each file name: panels are
\* stored in list order, a later one replacing an earlier one of the same name
RECURSIVE WidgetsOf(_)
WidgetsOf(questions) ==
    IF questions = <<>> THEN EmptyMap
    ELSE LET front == WidgetsOf(SubSeq(questions, 1, Len(questions) - 1))
             last == questions[Len(questions)]
         IN  Put(front, last[2], last)

Range(f) == {f[x] : x \in DOMAIN f}

\* show_questions_page with display_question_item for every question
show_questions_page(module, difficulty, topic) ==
    LET questions == QuestionLists[module, difficulty, topic]
    IN  /\ current_page' = "questions"
        /\ question_widgets' = WidgetsOf(questions)
        /\ disabled' = {q \in Range(questions) :
                           is_question_completed(module, difficulty, topic, q[2])}
        /\ UNCHANGED shown_difficulty

select_module(module) ==
    /\ alive
    /\ current_page = "modules"
    /\ module \in modules
    /\ current_module' = module
    /\ IF module = GettingStarted THEN show_topics_page(PyNone) ELSE show_difficulties_page
    /\ op' = Done("navigate", <<>>, TRUE)
    /\ UNCHANGED <<pmVars, alive, faults, probe, cfgVars, current_difficulty, current_topic>>

select_difficulty(difficulty) ==
    /\ alive
    /\ current_page = "difficulties"
    /\ Truthy(DifficultyPaths[current_module, difficulty])
    /\ current_difficulty' = difficulty
    /\ show_topics_page(difficulty)
    /\ op' = Done("navigate", <<>>, TRUE)
    /\ UNCHANGED <<pmVars, alive, faults, probe, cfgVars, current_module, current_topic>>

select_topic(topic) ==
    /\ alive
    /\ current_page = "topics"
    /\ topic \in TopicLists[current_module, shown_difficulty]
    /\ current_topic' = TopicDir(topic)
    /\ show_questions_page(current_module, current_difficulty, TopicDir(topic))
    /\ op' = Done("navigate", <<>>, TRUE)
    /\ UNCHANGED <<pmVars, alive, faults, probe, cfgVars, current_module, current_difficulty>>

\* the back button of the page shown
back ==
    /\ alive
    /\ CASE current_page = "questions" -> show_topics_page(current_difficulty)
         [] current_page = "topics" ->
                IF Truthy(shown_difficulty) THEN show_difficulties_page ELSE show_modules_page
         [] current_page = "difficulties" -> show_modules_page
         [] OTHER -> FALSE
    /\ op' = Done("navigate", <<>>, TRUE)
    /\ UNCHANGED <<pmVars, alive, faults, probe, cfgVars, current_module, current_difficulty,
                   current_topic>>


(***************************************************************************)
(* CTFApplication: answering, hints and reset.                             *)
(***************************************************************************)
\* what the user can type into an answer field
UserAnswers ==
    { <<" ">>,
      <<"C", "a", "t">>,
      <<" ", "d", "o", "g", " ">>,
      <<"c", "a", "t", "d", "o", "g">> }

IsCorrectAnswer_case_sensitive(user_answer, correct_answer) ==
    Call(LAMBDA options :
            LET correct_options == [i \in DOMAIN options |-> Strip(Lower(options[i]))]
            IN  Strip(user_answer) \in Range(correct_options),
         Split(correct_answer, "|"))

\* check_answer, lines 1198-1203
IsCorrectAnswer(user_answer, correct_answer) ==
    Call(LAMBDA options :
            LET correct_options == [i \in DOMAIN options |-> Strip(Lower(options[i]))]
            IN  Strip(Lower(user_answer)) \in Range(correct_options),
         Split(correct_answer, "|"))

StoredAnswers ==
    UNION {CorrectAnswers[x] : x \in DOMAIN CorrectAnswers} \ {PyNone}

Verdicts ==
    Table([user_answer \in UserAnswers, correct_answer \in StoredAnswers |->
              IsCorrectAnswer(user_answer, correct_answer)])

Blank_empty_only == {user_answer \in UserAnswers : user_answer = <<>>}

\* the answers that "if not user_answer.strip()" sends back
Blank == {user_answer \in UserAnswers : Strip(user_answer) = <<>>}

CurrentArgs(question_file) ==
    Args(current_module, current_difficulty, current_topic, question_file)

\* the panels of the questions page
Panels == Range(QuestionLists[current_module, current_difficulty, current_topic])

\* check_answer(question_file, user_answer) from the submit button or the
\* Enter key of an enabled panel; W: the outcomes its file writes can have
check_answer(panel, user_answer, W) ==
    /\ alive
    /\ current_page = "questions"
    /\ panel \in Panels \ disabled
    /\ \E correct_answer \in CorrectAnswers[current_module, current_difficulty,
                                              current_topic, panel[2]] :
          IF user_answer \in Blank \/ correct_answer = PyNone
          THEN /\ op' = Done("check_answer", <<>>, FALSE)
               /\ UNCHANGED <<pmVars, faults, disabled>>
          ELSE LET is_correct == Verdicts[user_answer, correct_answer]
                   a == CurrentArgs(panel[2])
                   key == KeyOf(a)
               IN  /\ stats.totals.total_attempts < MaxAttempts
                   /\ op' = Done("check_answer", key, is_correct)
                   /\ \E w1 \in W :
                         LET r == RecordAttemptCall(stats, disk_stats, a, is_correct, w1)
                         IN  /\ stats' = r.stats
                             /\ disk_stats' = r.file
                             /\ IF is_correct /\ panel[2] \in DOMAIN question_widgets
                                THEN \E w2 \in W :
                                       LET m == MarkCompletedCall(progress, disk_progress, a, w2)
                                       IN  /\ Cardinality(CompletedKeys(m.progress))
                                                <= MaxCompleted
                                           /\ faults + Cost(w1) + Cost(w2) <= MaxFaults
                                           /\ faults' = faults + Cost(w1) + Cost(w2)
                                           /\ disabled' =
                                                 disabled \cup {question_widgets[panel[2]]}
                                           /\ progress' = m.progress
                                           /\ disk_progress' = m.file
                                ELSE /\ faults + Cost(w1) <= MaxFaults
                                     /\ faults' = faults + Cost(w1)
                                     /\ UNCHANGED <<progress, disk_progress, disabled>>
    /\ UNCHANGED <<alive, probe, cfgVars, current_module, current_difficulty, current_topic,
                   current_page, shown_difficulty, question_widgets>>

\* the process is stopped inside check_answer on a correct answer, after
\* record_attempt has saved and before mark_question_completed
check_answer_killed(panel, user_answer, W) ==
    /\ alive
    /\ current_page = "questions"
    /\ panel \in Panels \ disabled
    /\ user_answer \notin Blank
    /\ stats.totals.total_attempts < MaxAttempts
    /\ \E correct_answer \in CorrectAnswers[current_module, current_difficulty,
                                              current_topic, panel[2]] :
          /\ correct_answer # PyNone
          /\ Verdicts[user_answer, correct_answer]
    /\ \E w1 \in W :
          /\ faults + Cost(w1) + 1 <= MaxFaults
          /\ faults' = faults + Cost(w1) + 1
          /\ disk_stats' =
                RecordAttemptCall(stats, disk_stats, CurrentArgs(panel[2]), TRUE, w1).file
    /\ Stopped("check_answer_killed")
    /\ UNCHANGED disk_progress

HintPenalty_one_each(difficulty) ==
    IF difficulty \in {Intermediate, Advanced} THEN 1 ELSE 0

\* the attempts show_hint records: 1 for Intermediate, 3 for Advanced
HintPenalty(difficulty) ==
    IF difficulty = Intermediate THEN 1 ELSE IF difficulty = Advanced THEN 3 ELSE 0

RECURSIVE RecordIncorrect(_, _, _, _)
\* record_attempt(..., False) once for every write outcome of the sequence ws
RecordIncorrect(st, file, a, ws) ==
    IF ws = <<>> THEN [stats |-> st, file |-> file, ret |-> TRUE]
    ELSE LET r == RecordAttemptCall(st, file, a, FALSE, ws[1])
         IN  RecordIncorrect(r.stats, r.file, a, Tail(ws))

RECURSIVE TotalCost(_)
TotalCost(ws) == IF ws = <<>> THEN 0 ELSE Cost(ws[1]) + TotalCost(Tail(ws))

\* the hint button is there for Beginner, Intermediate and Advanced
HintButtonShown == current_difficulty \in {Beginner, Intermediate, Advanced}

\* show_hint(question_file) from the hint button of a panel
show_hint(panel, W) ==
    /\ alive
    /\ current_page = "questions"
    /\ HintButtonShown
    /\ panel \in Panels
    /\ \E hint_content \in HintContents[current_module, current_difficulty,
                                          current_topic, panel[2]] :
          IF Truthy(hint_content)
          THEN /\ stats.totals.total_attempts + HintPenalty(current_difficulty) <= MaxAttempts
               /\ \E ws \in [1..HintPenalty(current_difficulty) -> W] :
                     LET a == CurrentArgs(panel[2])
                         r == RecordIncorrect(stats, disk_stats, a, ws)
                     IN  /\ faults + TotalCost(ws) <= MaxFaults
                         /\ stats' = r.stats
                         /\ disk_stats' = r.file
                         /\ faults' = faults + TotalCost(ws)
                         /\ op' = Done("show_hint", KeyOf(a), TRUE)
          ELSE /\ op' = Done("show_hint", <<>>, FALSE)
               /\ UNCHANGED <<stats, disk_stats, faults>>
    /\ UNCHANGED <<progress, disk_progress, alive, appVars>>

\* reset_progress answered Yes: reset(), then refresh_all, whose load_modules
\* shows the modules page
reset_progress(W) ==
    /\ alive
    /\ \E w1, w2 \in W : ResetEffect(w1, w2)
    /\ show_modules_page
    /\ op' = Done("reset", <<>>, TRUE)
    /\ UNCHANGED <<alive, probe, cfgVars, current_module, current_difficulty, current_topic>>

(***************************************************************************)
(* Specifications.                                                         *)
(*   Spec           ProgressManager called directly; every file write      *)
(*                  succeeds                                               *)
(*   SpecFaults     the same calls; a write may fail and the process may   *)
(*                  be stopped inside reset(), at most MaxFaults times     *)
(*   SpecReset      calls that record something, all written to the files, *)
(*                  and reset() with any outcome of its two writes         *)
(*   SpecApp        ProgressManager called by the handlers of              *)
(*                  CTFApplication; every file write succeeds              *)
(*   SpecAppFaults  the same handlers, with failing writes and stops       *)
(***************************************************************************)
Next ==
    \/ \E a \in CallArgs, is_correct \in BOOLEAN : record_attempt(a, is_correct, "ok")
    \/ \E a \in CallArgs : mark_question_completed(a, "ok")
    \/ \E a \in CallArgs : mark_hint_used(a, "ok")
    \/ reset("ok", "ok")
    \/ Exit
    \/ Restart

Spec == Init /\ [][Next]_vars

NextFaults ==
    \/ \E a \in CallArgs, is_correct \in BOOLEAN, w \in WriteOutcomes :
          record_attempt(a, is_correct, w)
    \/ \E a \in CallArgs, w \in WriteOutcomes : mark_question_completed(a, w)
    \/ \E a \in CallArgs, w \in WriteOutcomes : mark_hint_used(a, w)
    \/ \E w1, w2 \in WriteOutcomes : reset(w1, w2)
    \/ \E w1 \in WriteOutcomes : reset_killed(w1)
    \/ Exit
    \/ Restart

SpecFaults == Init /\ [][NextFaults]_vars

NextReset ==
    \/ \E a \in ValidCallArgs, is_correct \in BOOLEAN : record_attempt(a, is_correct, "ok")
    \/ \E a \in ValidCallArgs : mark_question_completed(a, "ok")
    \/ \E a \in ValidCallArgs : mark_hint_used(a, "ok")
    \/ \E w1, w2 \in WriteOutcomes : reset(w1, w2)

SpecReset == Init /\ [][NextReset]_vars

NextApp ==
    \/ \E module \in modules : select_module(module)
    \/ \E difficulty \in Range(difficulties) : select_difficulty(difficulty)
    \/ \E topic \in TopicLists[current_module, shown_difficulty] : select_topic(topic)
    \/ back
    \/ \E panel \in Panels, user_answer \in UserAnswers :
          check_answer(panel, user_answer, {"ok"})
    \/ \E panel \in Panels : show_hint(panel, {"ok"})
    \/ reset_progress({"ok"})
    \/ Exit
    \/ Restart

SpecApp == Init /\ [][NextApp]_vars

NextAppFaults ==
    \/ \E module \in modules : select_module(module)
    \/ \E difficulty \in Range(difficulties) : select_difficulty(difficulty)
    \/ \E topic \in TopicLists[current_module, shown_difficulty] : select_topic(topic)
    \/ back
    \/ \E panel \in Panels, user_answer \in UserAnswers :
          check_answer(panel, user_answer, WriteOutcomes)
    \/ \E panel \in Panels, user_answer \in UserAnswers :
          check_answer_killed(panel, user_answer, WriteOutcomes)
    \/ \E panel \in Panels : show_hint(panel, WriteOutcomes)
    \/ reset_progress(WriteOutcomes)
    \/ \E w1 \in WriteOutcomes : reset_killed(w1)
    \/ Exit
    \/ Restart

SpecAppFaults == Init /\ [][NextAppFaults]_vars

(***************************************************************************)
(* The question key on its own: two argument tuples are drawn, then the    *)
(* key of each is computed.                                                *)
(***************************************************************************)
ZeroQuestionFile == <<"0", "1", "_", "Q", ".", "t", "x", "t">>

KeyTuples ==
    {Args(module, difficulty, topic, question) :
        module \in {Web, WebTwo},
        difficulty \in {PyNone, Beginner, Intermediate, Advanced, Insane},
        topic \in {TopicOne, TopicTen},
        question \in {QuestionFile, ZeroQuestionFile}}

\* the state in which a function is examined on one of the given inputs
ProbeStart(inputs) ==
    /\ stats = DefaultStats
    /\ progress = DefaultProgress
    /\ disk_stats = NoFile
    /\ disk_progress = NoFile
    /\ alive = TRUE
    /\ faults = 0
    /\ op = Done("init", <<>>, TRUE)
    /\ probe \in inputs
    /\ current_module = PyNone
    /\ current_difficulty = PyNone
    /\ current_topic = PyNone
    /\ current_page = "modules"
    /\ shown_difficulty = PyNone
    /\ question_widgets = EmptyMap
    /\ disabled = {}
    /\ config = BaseConfig
    /\ disk_config = JsonFile(BaseConfig)
    /\ paths = NewPaths(BaseConfig)

\* the result of a function examined on its own replaces its input
ProbeStep(from, result) ==
    /\ probe.name = from
    /\ probe' = result
    /\ UNCHANGED <<pmVars, alive, faults, op, current_module, current_difficulty,
                   current_topic, current_page, shown_difficulty, question_widgets,
                   disabled, cfgVars>>

InitKey == ProbeStart({[name |-> "arguments", a |-> a, b |-> b] : a, b \in KeyTuples})

create_question_keys ==
    ProbeStep("arguments", [name |-> "keys", a |-> probe.a, b |-> probe.b,
                            key_a |-> KeyOf(probe.a), key_b |-> KeyOf(probe.b)])

NextKey == create_question_keys

SpecKey == InitKey /\ [][NextKey]_vars

(***************************************************************************)
(* The order of get_topics on its own: a listing of topic directories is   *)
(* drawn, in any order os.listdir may give, then get_topics builds and     *)
(* sorts its list.                                                         *)
(***************************************************************************)
TopicSpaceThree == <<"T", "o", "p", "i", "c", " ", "3">>

TopicThousand == <<"T", "o", "p", "i", "c", "1", "0", "0", "0">>

TopicNames == {TopicOne, TopicTwo, TopicSpaceThree, TopicTen, TopicThousand, TopicX}

MaxListing == 3

RECURSIVE ListingsOf(_, _)
\* the sequences of at most n distinct names of a set
ListingsOf(names, n) ==
    IF n = 0 THEN {<<>>}
    ELSE {<<>>} \cup UNION {{<<name>> \o rest : rest \in ListingsOf(names \ {name}, n - 1)} :
                              name \in names}

InitTopics ==
    ProbeStart({[name |-> "listing", listing |-> l] : l \in ListingsOf(TopicNames, MaxListing)})

sort_topics ==
    ProbeStep("listing", [name |-> "topics", listing |-> probe.listing,
                          topics |-> TopicsOfListing(probe.listing)])

NextTopics == sort_topics

SpecTopics == InitTopics /\ [][NextTopics]_vars

(***************************************************************************)
(* PathManager with a base directory that changes: set_base_directory and  *)
(* get_topics with its memo topic_display_names.                           *)
(***************************************************************************)
Colon == <<":">>

\* a dict with one entry set, under a field that may be missing
WithField(record, field, value) ==
    [f \in (DOMAIN record) \cup {field} |-> IF f = field THEN value ELSE record[f]]

Contents(list) == {list[i] : i \in DOMAIN list}

\* get_difficulty_path, lines 95-141, under a given base directory
DifficultyPathIn(root, module, difficulty) ==
    IF ~Truthy(root) \/ ~Truthy(module) THEN PyNone
    ELSE IF ~Exists(Join(root, module)) \/ ~IsDir(Join(root, module)) THEN PyNone
    ELSE IF module = GettingStarted \/ ~Truthy(difficulty) THEN Join(root, module)
    ELSE IF ~Exists(Join(Join(root, module), difficulty))
              \/ ~IsDir(Join(Join(root, module), difficulty)) THEN PyNone
    ELSE Join(Join(root, module), difficulty)

\* get_topics, lines 196-242, under a given base directory: the list it
\* builds, and whether it got as far as building one; os.listdir gives the
\* names in the order of sorted()
ComputeTopics(root, module, difficulty) ==
    Call(LAMBDA path :
            IF Truthy(path) /\ Exists(path)
            THEN [built |-> TRUE,
                  topics |-> TopicsOfListing(
                                SortedNames({item \in ListDir(path) :
                                                IsDir(Join(path, item))
                                                   /\ StartsWith(item, TopicPrefix)}))]
            ELSE [built |-> FALSE, topics |-> <<>>],
         DifficultyPathIn(root, module, difficulty))

\* the topic lists of every base directory, computed once
ComputedTopics ==
    Table([root \in {PyNone, Base, Other}, m \in ModuleArgs, d \in DifficultyArgs |->
              ComputeTopics(root, m, d)])

\* cache_key = f"{module}:{difficulty}"
CacheKey(module, difficulty) == Format(module) \o Colon \o Format(difficulty)

\* get_topics with its memo: the memo afterwards and the list returned
GetTopicsCall(p, module, difficulty) ==
    IF ~Truthy(module) THEN [paths |-> p, topics |-> <<>>, hit |-> FALSE]
    ELSE IF CacheKey(module, difficulty) \in DOMAIN p.topic_display_names
    THEN [paths |-> p, topics |-> p.topic_display_names[CacheKey(module, difficulty)],
          hit |-> TRUE]
    ELSE IF ~ComputedTopics[p.base_directory, module, difficulty].built
    THEN [paths |-> p, topics |-> <<>>, hit |-> FALSE]
    ELSE [paths |-> [p EXCEPT !.topic_display_names =
                        Put(@, CacheKey(module, difficulty),
                            ComputedTopics[p.base_directory, module, difficulty].topics)],
          topics |-> ComputedTopics[p.base_directory, module, difficulty].topics,
          hit |-> FALSE]

\* PathManager.set_base_directory, lines 59-61
SetRoot_keeps_memo(p, directory) == [p EXCEPT !.base_directory = directory]

SetRoot(p, directory) == [base_directory |-> directory, topic_display_names |-> EmptyMap]

\* ConfigManager.set_base_directory, lines 110-118, on the configuration
ConfigSetBase(cfg, directory) ==
    IF directory \in Contents(Get(cfg, "directories", <<>>))
    THEN WithField(cfg, "base_directory", directory)
    ELSE WithField(WithField(cfg, "base_directory", directory),
                   "directories", Append(Get(cfg, "directories", <<>>), directory))

InvalidDirectory(directory) == ~Truthy(directory) \/ ~Exists(directory)

\* ConfigManager.save: its return value
Saved(w) == w = "ok"

Directories == {PyNone, Base, Other, Gone}

get_topics_call(module, difficulty) ==
    /\ alive
    /\ \E r \in {GetTopicsCall(paths, module, difficulty)} :
          /\ paths' = r.paths
          /\ probe' = [name |-> "get_topics", module |-> module, difficulty |-> difficulty,
                       topics |-> r.topics, hit |-> r.hit]
    /\ op' = Done("get_topics", CacheKey(module, difficulty), TRUE)
    /\ UNCHANGED <<pmVars, alive, faults, config, disk_config, current_module,
                   current_difficulty, current_topic, current_page, shown_difficulty,
                   question_widgets, disabled>>

\* PathManager.set_base_directory, which ends in ConfigManager.set_base_directory
paths_set_base_directory(directory, w) ==
    /\ alive
    /\ InvalidDirectory(directory) => w = "ok"
    /\ faults + Cost(w) <= MaxFaults
    /\ faults' = faults + Cost(w)
    /\ IF InvalidDirectory(directory)
       THEN /\ op' = Done("set_base_directory", directory, FALSE)
            /\ UNCHANGED <<paths, config, disk_config>>
       ELSE /\ paths' = SetRoot(paths, directory)
            /\ config' = ConfigSetBase(config, directory)
            /\ disk_config' = WriteFile(disk_config, config', w)
            /\ op' = Done("set_base_directory", directory, Saved(w))
    /\ UNCHANGED <<pmVars, alive, probe, current_module, current_difficulty, current_topic,
                   current_page, shown_difficulty, question_widgets, disabled>>

\* the arguments get_topics is called with: no module, a difficulty
\* directory with topics, a module directory without, a missing directory
MemoModules == {PyNone, Web}

MemoDifficulties == {PyNone, Beginner, Advanced}

NextPaths ==
    \/ \E module \in MemoModules, difficulty \in MemoDifficulties :
          get_topics_call(module, difficulty)
    \/ \E directory \in Directories, w \in WriteOutcomes :
          paths_set_base_directory(directory, w)

SpecPaths == Init /\ [][NextPaths]_vars

(***************************************************************************)
(* ConfigManager: the operations on the configuration and its file.  Each  *)
(* gives the configuration afterwards, the file afterwards and the value   *)
(* returned.                                                               *)
(***************************************************************************)
\* an operation that returns without saving
Unsaved(cfg, file, ret) == [config |-> cfg, file |-> file, ret |-> ret, saves |-> FALSE]

\* self.config = ...; return self.save()
SaveConfig(cfg, file, w) ==
    [config |-> cfg, file |-> WriteFile(file, cfg, w), ret |-> Saved(w), saves |-> TRUE]

AddDirectoryCall(cfg, file, directory, w) ==
    IF InvalidDirectory(directory) THEN Unsaved(cfg, file, FALSE)
    ELSE IF directory \in Contents(Get(cfg, "directories", <<>>))
    THEN Unsaved(cfg, file, TRUE)
    ELSE SaveConfig(WithField(cfg, "directories",
                              Append(Get(cfg, "directories", <<>>), directory)),
                    file, w)

\* list.remove(x): the list without the first x
RemoveFirst(list, x) ==
    Call(LAMBDA first : SubSeq(list, 1, first - 1) \o SubSeq(list, first + 1, Len(list)),
         CHOOSE i \in DOMAIN list : list[i] = x /\ \A j \in 1..(i - 1) : list[j] # x)

\* remove_directory, lines 171-181: the base directory once the list is shortened
BaseAfterRemove(cfg, remaining, directory) ==
    IF directory # Get(cfg, "base_directory", PyNone) THEN cfg
    ELSE IF remaining # <<>> THEN WithField(cfg, "base_directory", remaining[1])
    ELSE WithField(cfg, "base_directory", PyNone)

RemoveDirectoryCall(cfg, file, directory, w) ==
    IF "directories" \in DOMAIN cfg /\ directory \in Contents(cfg.directories)
    THEN SaveConfig(Call(LAMBDA remaining :
                            BaseAfterRemove(WithField(cfg, "directories", remaining),
                                            remaining, directory),
                         RemoveFirst(cfg.directories, directory)),
                    file, w)
    ELSE Unsaved(cfg, file, FALSE)

ClearAllCall(cfg, file, w) == SaveConfig(DefaultConfig, file, w)

\* import_config, lines 249-256: the directories that exist
ValidDirs_unchecked(list) == list

ValidDirs(list) == SelectSeq(list, Exists)

\* import_config, lines 242-263, on the record that was read
ImportedConfig(new_config) ==
    Call(LAMBDA valid_dirs :
            [base_directory |->
                Call(LAMBDA base :
                        IF base # PyNone /\ ~Exists(base)
                        THEN (IF valid_dirs # <<>> THEN valid_dirs[1] ELSE PyNone)
                        ELSE base,
                     Get(new_config, "base_directory", PyNone)),
             directories |-> valid_dirs],
         ValidDirs(Get(new_config, "directories", <<>>)))

ImportConfigCall(cfg, file, import, w) ==
    IF import.kind # "json" THEN Unsaved(cfg, file, FALSE)
    ELSE SaveConfig(ImportedConfig(import.data), file, w)

\* the files import_config is given: missing, not JSON, JSON but not a
\* record, and records with and without their fields, with a directory
\* listed twice and with a base directory that is not listed
ImportFiles ==
    {NoFile, TornFile, ValueFile,
     JsonFile(EmptyMap),
     JsonFile([base_directory |-> Gone, directories |-> <<Gone, Other>>]),
     JsonFile([base_directory |-> Gone, directories |-> <<Gone>>]),
     JsonFile([base_directory |-> Base, directories |-> <<Base, Other, Base>>]),
     JsonFile([base_directory |-> Base, directories |-> <<Other>>]),
     JsonFile([directories |-> <<Other>>])}

\* the step of a ConfigManager operation, from what the operation gives
ConfigStep(name, key, r, w) ==
    /\ alive
    /\ ~r.saves => w = "ok"
    /\ faults + Cost(w) <= MaxFaults
    /\ faults' = faults + Cost(w)
    /\ config' = r.config
    /\ disk_config' = r.file
    /\ op' = Done(name, key, r.ret)
    /\ UNCHANGED <<pmVars, alive, paths, probe, current_module, current_difficulty,
                   current_topic, current_page, shown_difficulty, question_widgets,
                   disabled>>

add_directory(directory, w) ==
    \E r \in {AddDirectoryCall(config, disk_config, directory, w)} :
        ConfigStep("add_directory", directory, r, w)

remove_directory(directory, w) ==
    \E r \in {RemoveDirectoryCall(config, disk_config, directory, w)} :
        ConfigStep("remove_directory", directory, r, w)

clear_all(w) ==
    \E r \in {ClearAllCall(config, disk_config, w)} : ConfigStep("clear_all", <<>>, r, w)

import_config(import, w) ==
    \E r \in {ImportConfigCall(config, disk_config, import, w)} :
        ConfigStep("import_config", <<import.kind>>, r, w)

NextConfig ==
    \/ \E directory \in Directories, w \in WriteOutcomes :
          paths_set_base_directory(directory, w)
    \/ \E directory \in Directories, w \in WriteOutcomes : add_directory(directory, w)
    \/ \E directory \in Directories, w \in WriteOutcomes : remove_directory(directory, w)
    \/ \E w \in WriteOutcomes : clear_all(w)
    \/ \E import \in ImportFiles, w \in WriteOutcomes : import_config(import, w)

SpecConfig == Init /\ [][NextConfig]_vars

(***************************************************************************)
(* Startup on files of any content: the three files are drawn, then the    *)
(* application starts and loads them.                                      *)
(***************************************************************************)
OneAttempt == [total |-> 1, correct |-> 1]

StatsFiles ==
    {NoFile, TornFile, ValueFile, JsonFile(EmptyMap),
     JsonFile([attempts |-> EmptyMap]),
     JsonFile([attempts |-> Put(EmptyMap, KeyOf(Args(Web, Beginner, TopicOne, QuestionFile)),
                                OneAttempt),
               totals |-> [total_attempts |-> 1, correct_attempts |-> 1]])}

ProgressFiles ==
    {NoFile, TornFile, ValueFile, JsonFile(EmptyMap),
     JsonFile([hints_used |-> EmptyMap]),
     JsonFile([completed |-> Put(EmptyMap, KeyOf(Args(Web, Beginner, TopicOne, QuestionFile)),
                                 TRUE)])}

ConfigFiles ==
    {NoFile, TornFile, ValueFile, JsonFile(EmptyMap),
     JsonFile([base_directory |-> Base]), JsonFile(BaseConfig)}

InitLoad ==
    /\ disk_stats \in StatsFiles
    /\ disk_progress \in ProgressFiles
    /\ disk_config \in ConfigFiles
    /\ stats = DefaultStats
    /\ progress = DefaultProgress
    /\ config = DefaultConfig
    /\ paths = NewPaths(DefaultConfig)
    /\ alive = FALSE
    /\ faults = 0
    /\ op = Done("init", <<>>, TRUE)
    /\ probe = NoProbe
    /\ current_module = PyNone
    /\ current_difficulty = PyNone
    /\ current_topic = PyNone
    /\ current_page = "modules"
    /\ shown_difficulty = PyNone
    /\ question_widgets = EmptyMap
    /\ disabled = {}

NextLoad ==
    \/ Restart
    \/ Exit

SpecLoad == InitLoad /\ [][NextLoad]_vars

(***************************************************************************)
(* The verdict of check_answer on its own: a submitted answer and the      *)
(* string of an answer file are drawn, then lines 1181-1203 decide.        *)
(***************************************************************************)
SubmittedAnswers ==
    { <<>>,
      <<" ">>,
      <<"C", "a", "t">>,
      <<" ", "d", "o", "g", " ">>,
      <<"D", "O", "G">>,
      <<"c", "a", "t", "d", "o", "g">>,
      <<"c", "a", "t", "|", "d", "o", "g">>,
      <<"c", "a">>,
      <<"D", "o", "g">>,
      <<"\t", "c", "a", "t", "\n">> }

\* what get_correct_answer returns: f.read().strip() of an answer file
AnswerStrings ==
    { <<>>,
      <<"c", "a", "t">>,
      <<"c", "a", "t", "|", "d", "o", "g">>,
      <<"C", "a", "t", " ", "|", " ", "D", "O", "G">>,
      <<"c", "a", "t", "|">>,
      <<"d", "o", "g", "|", "|", "c", "a", "t">> }

InitAnswer ==
    ProbeStart({[name |-> "answer", user_answer |-> u, correct_answer |-> c] :
                   u \in SubmittedAnswers, c \in AnswerStrings})

\* check_answer, lines 1181-1203: a blank answer is sent back before it is
\* compared, any other answer gets is_correct
judge_answer ==
    ProbeStep("answer",
              [name |-> "verdict", user_answer |-> probe.user_answer,
               correct_answer |-> probe.correct_answer,
               is_correct |-> IF Strip(probe.user_answer) = <<>> THEN FALSE
                              ELSE IsCorrectAnswer(probe.user_answer, probe.correct_answer)])

NextAnswer == judge_answer

SpecAnswer == InitAnswer /\ [][NextAnswer]_vars

(***************************************************************************)
(* load_question_content on its own: the text of a question file is drawn, *)
(* either "[D]{Q}" or a text without brackets, then lines 332-354 split it *)
(* into the text to display and the question.                              *)
(***************************************************************************)
\* _extract_content(text, start_char, end_char)
_extract_content(text, start_char, end_char) ==
    IF text = <<>> THEN <<>>
    ELSE Call(LAMBDA start_index :
                 Call(LAMBDA end_index :
                         IF start_index # 0 /\ end_index # 0 /\ end_index > start_index
                         THEN Strip(SubSeq(text, start_index + 1, end_index - 1))
                         ELSE <<>>,
                      Find(text, <<end_char>>, IF start_index # 0 THEN start_index + 1 ELSE 1)),
              Find(text, <<start_char>>, 1))

BlankLine == <<"\n", "\n">>

QuestionContent_trimmed(question_content) ==
    Call(LAMBDA parts :
            IF parts[1] = <<>> /\ parts[2] = <<>>
            THEN <<Strip(question_content), Strip(question_content)>>
            ELSE <<(IF parts[1] # <<>> THEN parts[1] \o BlankLine ELSE <<>>)
                      \o (IF parts[2] # <<>> THEN parts[2] ELSE <<>>),
                   parts[2]>>,
         <<_extract_content(question_content, "[", "]"),
           _extract_content(question_content, "{", "}")>>)

\* load_question_content, lines 332-354, on the text that file.read() gave:
\* formatted_content and actual_question
QuestionContent(question_content) ==
    Call(LAMBDA parts :
            IF parts[1] = <<>> /\ parts[2] = <<>>
            THEN <<question_content, question_content>>
            ELSE <<(IF parts[1] # <<>> THEN parts[1] \o BlankLine ELSE <<>>)
                      \o (IF parts[2] # <<>> THEN parts[2] ELSE <<>>),
                   parts[2]>>,
         <<_extract_content(question_content, "[", "]"),
           _extract_content(question_content, "{", "}")>>)

\* the messages load_question_content returns in place of the content
InvalidParametersMsg(module, topic, q_file) ==
    <<"I", "n", "v", "a", "l", "i", "d", " ", "p", "a", "r", "a", "m", "e", "t", "e",
      "r", "s", ":", " ", "m", "o", "d", "u", "l", "e", "=">>
        \o Format(module)
        \o <<",", " ", "t", "o", "p", "i", "c", "=">> \o Format(topic)
        \o <<",", " ", "q", "_", "f", "i", "l", "e", "=">> \o Format(q_file)

InvalidTopicPathMsg(module, difficulty, topic) ==
    <<"I", "n", "v", "a", "l", "i", "d", " ", "t", "o", "p", "i", "c", " ", "p", "a",
      "t", "h", " ", "f", "o", "r", " ">>
        \o Format(module) \o Slash \o Format(difficulty) \o Slash \o Format(topic)

FileNotFoundMsg(q_file) ==
    <<"Q", "u", "e", "s", "t", "i", "o", "n", " ", "f", "i", "l", "e", " ", "n", "o",
      "t", " ", "f", "o", "u", "n", "d", ":", " ">>
        \o q_file

\* load_question_content, lines 312-363: formatted_content and actual_question
load_question_content(module, difficulty, topic, q_type, q_file) ==
    IF ~Truthy(module) \/ ~Truthy(topic) \/ ~Truthy(q_file)
    THEN <<InvalidParametersMsg(module, topic, q_file),
           InvalidParametersMsg(module, topic, q_file)>>
    ELSE Call(LAMBDA topic_path :
                 IF ~Truthy(topic_path)
                 THEN <<InvalidTopicPathMsg(module, difficulty, topic),
                        InvalidTopicPathMsg(module, difficulty, topic)>>
                 ELSE Call(LAMBDA question_path :
                              IF question_path \notin FilePaths
                              THEN <<FileNotFoundMsg(q_file), FileNotFoundMsg(q_file)>>
                              ELSE QuestionContent(FileContent(question_path)),
                           IF q_type = "prompt"
                           THEN Join(Join(Join(topic_path, PromptOrNot), PromptStyle), q_file)
                           ELSE Join(Join(topic_path, Questions), q_file)),
              get_topic_path(module, difficulty, topic))

MaxText == 3

MaxPart == 2

RECURSIVE TextsOf(_, _)
\* the strings of at most n characters of a set
TextsOf(chars, n) ==
    IF n = 0 THEN {<<>>}
    ELSE {<<>>} \cup {<<c>> \o rest : c \in chars, rest \in TextsOf(chars, n - 1)}

\* a description and a question in their brackets
Bracketed(description, question) ==
    <<"[">> \o description \o <<"]", "{">> \o question \o <<"}">>

QuestionTexts ==
    {[kind |-> "plain", text |-> t] : t \in TextsOf({"h", " ", "\n"}, MaxText)}
    \cup {[kind |-> "bracketed", description |-> d, question |-> q, text |-> Bracketed(d, q)] :
             d \in TextsOf({"d", " "}, MaxPart), q \in TextsOf({"q", "\n"}, MaxPart)}

InitContent == ProbeStart({[name |-> "file", file |-> f] : f \in QuestionTexts})

read_question ==
    ProbeStep("file", [name |-> "content", file |-> probe.file,
                       formatted_content |-> QuestionContent(probe.file.text)[1],
                       actual_question |-> QuestionContent(probe.file.text)[2]])

NextContent == read_question

SpecContent == InitContent /\ [][NextContent]_vars

(***************************************************************************)
(* The resolvers of PathManager on their own: arguments are drawn that     *)
(* name directories and files the content tree has and ones it lacks, then *)
(* each resolver is called with them.                                      *)
(***************************************************************************)
MissingFile == <<"9", "_", "Q", ".", "t", "x", "t">>

ResolverArgs ==
    {[module |-> m, difficulty |-> d, topic |-> t, q_type |-> k, q_file |-> f] :
        m \in {PyNone, GettingStarted, Web, WebTwo},
        d \in {PyNone, Beginner, Intermediate, Advanced},
        t \in {PyNone, TopicOne, TopicTen},
        k \in {"regular", "prompt"},
        f \in {<<>>, QuestionFile, MissingFile}}

InitResolve == ProbeStart({[name |-> "call", a |-> a] : a \in ResolverArgs})

resolve ==
    ProbeStep("call",
              [name |-> "resolved", a |-> probe.a,
               topics |-> get_topics(probe.a.module, probe.a.difficulty),
               questions |-> get_questions(probe.a.module, probe.a.difficulty, probe.a.topic),
               content |-> load_question_content(probe.a.module, probe.a.difficulty,
                                                 probe.a.topic, probe.a.q_type, probe.a.q_file),
               answer |-> get_correct_answer(probe.a.module, probe.a.difficulty,
                                             probe.a.topic, probe.a.q_file),
               hint |-> get_hint_content(probe.a.module, probe.a.difficulty,
                                         probe.a.topic, probe.a.q_file)])

NextResolve == resolve

SpecResolve == InitResolve /\ [][NextResolve]_vars

(***************************************************************************)
(* CTFApplication: the completion of topics, difficulties and modules as   *)
(* the module cards of show_modules_page show it.                          *)
(***************************************************************************)
is_topic_completed(module, difficulty, topic) ==
    \E questions \in {QuestionLists[module, difficulty, TopicDir(topic)]} :
        /\ questions # <<>>
        /\ \A i \in DOMAIN questions :
              is_question_completed(module, difficulty, TopicDir(topic), questions[i][2])

is_difficulty_completed(module, difficulty) ==
    /\ TopicLists[module, difficulty] # {}
    /\ \A topic \in TopicLists[module, difficulty] :
          is_topic_completed(module, difficulty, topic)

\* the difficulties whose directory "if difficulty_path and
\* os.path.exists(difficulty_path)" finds
FoundDifficulties(module) ==
    {d \in Range(difficulties) :
        Truthy(DifficultyPaths[module, d]) /\ Exists(DifficultyPaths[module, d])}

\* the loop over the difficulties ends in an unconditional "return True"
is_module_completed(module) ==
    IF ~Truthy(module) THEN FALSE
    ELSE IF module = GettingStarted
    THEN /\ TopicLists[module, PyNone] # {}
         /\ \A topic \in TopicLists[module, PyNone] : is_topic_completed(module, PyNone, topic)
    ELSE \A difficulty \in FoundDifficulties(module) :
            is_difficulty_completed(module, difficulty)

\* the entries (difficulty, topic_dir, position) of the question lists that
\* calculate_module_completion walks through
CountedQuestions(module) ==
    UNION {UNION {{<<d, TopicDir(t), i>> : i \in DOMAIN QuestionLists[module, d, TopicDir(t)]} :
                     t \in TopicLists[module, d]} :
              d \in IF module = GettingStarted THEN {PyNone} ELSE FoundDifficulties(module)}

\* (completed_questions / total_questions) * 100 as the pair of numerator
\* and denominator, 0 as <<0, 1>>
Percentage(completed_questions, total_questions) ==
    IF total_questions = 0 THEN <<0, 1>> ELSE <<completed_questions * 100, total_questions>>

calculate_module_completion(module) ==
    IF ~Truthy(module) THEN <<0, 1>>
    ELSE Percentage(Cardinality({e \in CountedQuestions(module) :
                                    is_question_completed(module, e[1], e[2],
                                        QuestionLists[module, e[1], e[2]][e[3]][2])}),
                    Cardinality(CountedQuestions(module)))

\* a percentage that equals 100
IsHundred(percentage) == percentage[1] = 100 * percentage[2]

\* the keys of the questions of the tree, and the key a question of Getting
\* Started gets while current_difficulty still holds Beginner
CompletionKeys ==
    {_create_question_key(GettingStarted, PyNone, TopicOne, QuestionFile),
     _create_question_key(GettingStarted, Beginner, TopicOne, QuestionFile),
     _create_question_key(Web, Beginner, TopicOne, QuestionFile),
     _create_question_key(Web, Intermediate, TopicOne, QuestionFile),
     _create_question_key(Web, Intermediate, TopicTwo, QuestionFile)}

CompletionInputs ==
    {[name |-> "modules", module |-> module] : module \in ModuleArgs}

InitCompletion ==
    /\ stats = DefaultStats
    /\ progress \in {[completed |-> [k \in keys |-> TRUE]] : keys \in SUBSET CompletionKeys}
    /\ disk_stats = NoFile
    /\ disk_progress = NoFile
    /\ alive = TRUE
    /\ faults = 0
    /\ op = Done("init", <<>>, TRUE)
    /\ probe \in CompletionInputs
    /\ current_module = PyNone
    /\ current_difficulty = PyNone
    /\ current_topic = PyNone
    /\ current_page = "modules"
    /\ shown_difficulty = PyNone
    /\ question_widgets = EmptyMap
    /\ disabled = {}
    /\ config = BaseConfig
    /\ disk_config = JsonFile(BaseConfig)
    /\ paths = NewPaths(BaseConfig)

\* one module card of show_modules_page, lines 459-464
module_card ==
    ProbeStep("modules",
              [name |-> "card", module |-> probe.module,
               found |-> FoundDifficulties(probe.module),
               completed |-> is_module_completed(probe.module),
               completion_percentage |-> calculate_module_completion(probe.module)])

NextCompletion == module_card

SpecCompletion == InitCompletion /\ [][NextCompletion]_vars

(***************************************************************************)
(* show_hint on its own: the questions page of any difficulty, a question  *)
(* with or without earlier attempts and completion, and what               *)
(* get_hint_content returned for it.                                       *)
(***************************************************************************)
HintQuestions ==
    {Args(Web, difficulty, TopicOne, QuestionFile) :
        difficulty \in {PyNone, Beginner, Intermediate, Advanced, Insane}}
    \cup {Args(GettingStarted, Intermediate, TopicOne, QuestionFile)}

\* get_hint_content: nothing found, an empty file, a hint
HintTexts == {PyNone, <<>>, <<"h", "i">>}

StatsWith(key, attempted) ==
    IF attempted
    THEN [attempts |-> Put(EmptyMap, key, OneAttempt),
          totals |-> [total_attempts |-> 1, correct_attempts |-> 1]]
    ELSE DefaultStats

ProgressWith(key, completed) ==
    IF completed THEN [completed |-> Put(EmptyMap, key, TRUE)] ELSE DefaultProgress

InitHint ==
    /\ probe \in {[name |-> "hint", a |-> a, hint_content |-> h] :
                     a \in HintQuestions, h \in HintTexts}
    /\ \E attempted, completed \in BOOLEAN :
          /\ stats = StatsWith(KeyOf(probe.a), attempted)
          /\ disk_stats = IF attempted THEN JsonFile(stats) ELSE NoFile
          /\ progress = ProgressWith(KeyOf(probe.a), completed)
          /\ disk_progress = IF completed THEN JsonFile(progress) ELSE NoFile
    /\ alive = TRUE
    /\ faults = 0
    /\ op = Done("init", <<>>, TRUE)
    /\ current_module = probe.a.module
    /\ current_difficulty = probe.a.difficulty
    /\ current_topic = probe.a.topic
    /\ current_page = "questions"
    /\ shown_difficulty = probe.a.difficulty
    /\ question_widgets = EmptyMap
    /\ disabled = {}
    /\ config = BaseConfig
    /\ disk_config = JsonFile(BaseConfig)
    /\ paths = NewPaths(BaseConfig)

\* show_hint, lines 1267-1300, once get_hint_content has returned
hint_request ==
    /\ probe.name = "hint"
    /\ IF Truthy(probe.hint_content)
       THEN \E ws \in [1..HintPenalty(current_difficulty) -> {"ok", "denied"}] :
               \E r \in {RecordIncorrect(stats, disk_stats, CurrentArgs(probe.a.question), ws)} :
                   /\ stats' = r.stats
                   /\ disk_stats' = r.file
                   /\ op' = Done("show_hint", KeyOf(probe.a), TRUE)
       ELSE /\ op' = Done("show_hint", <<>>, FALSE)
            /\ UNCHANGED <<stats, disk_stats>>
    /\ probe' = [name |-> "shown", a |-> probe.a, hint_content |-> probe.hint_content,
                 stats |-> stats, progress |-> progress]
    /\ UNCHANGED <<progress, disk_progress, alive, faults, current_module, current_difficulty,
                   current_topic, current_page, shown_difficulty, question_widgets, disabled,
                   cfgVars>>

NextHint == hint_request

SpecHint == InitHint /\ [][NextHint]_vars

(***************************************************************************)
(* ProgressManager called with arguments of which any may be None or the   *)
(* empty string.                                                           *)
(***************************************************************************)
GuardArgs ==
    {Args(module, Beginner, topic, question) :
        module \in {PyNone, <<>>, Web},
        topic \in {PyNone, <<>>, TopicOne},
        question \in {PyNone, <<>>, QuestionFile}}

NextGuard ==
    \/ \E a \in GuardArgs, is_correct \in BOOLEAN : record_attempt(a, is_correct, "ok")
    \/ \E a \in GuardArgs : mark_question_completed(a, "ok")
    \/ \E a \in GuardArgs : mark_hint_used(a, "ok")

SpecGuard == Init /\ [][NextGuard]_vars

(***************************************************************************)
(* Properties.                                                             *)
(***************************************************************************)
AllKeys == DOMAIN stats.attempts

\* C1: in every state reached through record_attempt and reset, the overall
\* total_attempts is the sum of the per-question total counts and the
\* overall correct_attempts is the sum of the per-question correct counts.
TotalsAreSums ==
    /\ stats.totals.total_attempts = SumField(stats.attempts, AllKeys, "total")
    /\ stats.totals.correct_attempts = SumField(stats.attempts, AllKeys, "correct")

\* attempts recorded under two keys, one of them correct
TotalsAreSumsWitness ==
    /\ op.name = "record_attempt"
    /\ op.ret
    /\ Cardinality(AllKeys) >= 2
    /\ stats.totals.correct_attempts >= 1
    /\ stats.totals.total_attempts > stats.totals.correct_attempts

CompletedHasCorrect(st, pr) ==
    \A key \in CompletedKeys(pr) :
        pr.completed[key] =>
            key \in DOMAIN st.attempts /\ st.attempts[key].correct >= 1

\* C2: whenever the application shows a question as completed, the stats
\* hold at least one correct attempt under the same key; this holds in
\* memory and for the two files as they would be loaded by a restart, also
\* when a write fails or the process stops between two writes.
CompletedImpliesCorrect ==
    /\ CompletedHasCorrect(stats, progress)
    /\ CompletedHasCorrect(LoadStats(disk_stats), LoadProgress(disk_progress))

\* the key as "module/difficulty/topic/question" taken apart
KeyParts(key) == Split(key, "/")

TopicKeys(module, difficulty, topic) ==
    {key \in AllKeys :
        /\ Len(KeyParts(key)) = 4
        /\ KeyParts(key)[1] = Format(module)
        /\ KeyParts(key)[2] = Format(difficulty)
        /\ KeyParts(key)[3] = TopicDir(topic)}

\* C3: get_topic_stats(module, difficulty, topic) counts the attempts of
\* exactly the keys whose module, difficulty and topic components equal
\* its arguments, and those of no other topic.
TopicStatsAreExact ==
    \A a \in ValidCallArgs :
        LET topic_stats == get_topic_stats(a.module, a.difficulty, a.topic)
            keys == TopicKeys(a.module, a.difficulty, a.topic)
        IN  /\ topic_stats.total_attempts = SumField(stats.attempts, keys, "total")
            /\ topic_stats.correct_attempts = SumField(stats.attempts, keys, "correct")

ModuleKeys(module) == {key \in AllKeys : KeyParts(key)[1] = module}

RecordedModules == {KeyParts(key)[1] : key \in AllKeys}

RECURSIVE SumModules(_, _)
SumModules(names, field) ==
    IF names = {} THEN 0
    ELSE LET module == CHOOSE m \in names : TRUE
         IN  get_module_stats(module)[field] + SumModules(names \ {module}, field)

\* C4: get_module_stats(m) is the sum over the keys whose first component
\* is m, and get_overall_stats is the sum of get_module_stats over the
\* distinct modules that have recorded attempts.
ModuleStatsAreSums ==
    /\ \A module \in {Web, WebTwo, GettingStarted} :
          /\ get_module_stats(module).total_attempts
                = SumField(stats.attempts, ModuleKeys(module), "total")
          /\ get_module_stats(module).correct_attempts
                = SumField(stats.attempts, ModuleKeys(module), "correct")
    /\ get_overall_stats.total_attempts = SumModules(RecordedModules, "total_attempts")
    /\ get_overall_stats.correct_attempts = SumModules(RecordedModules, "correct_attempts")

\* attempts recorded under two modules of which one name starts the other
ModuleStatsAreSumsWitness ==
    /\ op.name = "record_attempt"
    /\ {Web, WebTwo} \subseteq RecordedModules
    /\ get_module_stats(Web).total_attempts >= 1
    /\ get_overall_stats.total_attempts > get_module_stats(Web).total_attempts

\* C5: a question marked completed stays completed through every
\* record_attempt, mark_question_completed and mark_hint_used call; only
\* reset clears the flag.
CompletedStays ==
    [][op'.name \in {"record_attempt", "mark_question_completed", "mark_hint_used"}
          => \A key \in CompletedKeys(progress) :
                IsCompletedIn(progress, key) => IsCompletedIn(progress', key)]_vars

\* an incorrect attempt recorded for a completed question, another one
\* completed as well
CompletedStaysWitness ==
    /\ op.name = "record_attempt"
    /\ op.ret
    /\ IsCompletedIn(progress, op.key)
    /\ stats.attempts[op.key].correct = 0
    /\ Cardinality({key \in CompletedKeys(progress) : IsCompletedIn(progress, key)}) >= 2

\* the flags that are set in a progress record
FlagsOf(pr) ==
    [completed |-> {key \in CompletedKeys(pr) : pr.completed[key]},
     hints_used |-> {key \in HintKeys(pr) : pr.hints_used[key]}]

NoFlags == [completed |-> {}, hints_used |-> {}]

\* statistics and flags both empty, or both as in the records before
AllOrNothing(st, pr, before_st, before_pr) ==
    \/ st = DefaultStats /\ FlagsOf(pr) = NoFlags
    \/ st = before_st /\ FlagsOf(pr) = FlagsOf(before_pr)

\* C6: a reset is never seen half-done: after it, the records in memory
\* and the two files as a restart would load them each hold statistics and
\* flags that are both empty or both as before the reset, also when a file
\* write fails or the process stops between the two writes.
ResetNeverHalfDone ==
    [][op'.name \in {"reset", "reset_killed"}
          => /\ alive' => AllOrNothing(stats', progress', stats, progress)
             /\ AllOrNothing(LoadStats(disk_stats'), LoadProgress(disk_progress'),
                             LoadStats(disk_stats), LoadProgress(disk_progress))]_vars

ZeroRollup(rollup) == rollup.total_attempts = 0 /\ rollup.correct_attempts = 0

\* C7: after reset() returns, is_question_completed and is_hint_used are
\* false for every key, get_question_stats is 0/0, every topic, difficulty
\* and module rollup is 0 and get_overall_stats is 0/0, whatever came
\* before and whether or not the file writes succeeded.
AfterResetAllZero ==
    op.name = "reset" =>
        /\ \A a \in ValidCallArgs :
              /\ ~is_question_completed(a.module, a.difficulty, a.topic, a.question)
              /\ ~is_hint_used(a.module, a.difficulty, a.topic, a.question)
              /\ get_question_stats(a.module, a.difficulty, a.topic, a.question).total = 0
              /\ get_question_stats(a.module, a.difficulty, a.topic, a.question).correct = 0
              /\ ZeroRollup(get_topic_stats(a.module, a.difficulty, a.topic))
              /\ ZeroRollup(get_difficulty_stats(a.module, a.difficulty))
              /\ ZeroRollup(get_module_stats(a.module))
        /\ FlagsOf(progress) = NoFlags
        /\ AllKeys = {}
        /\ ZeroRollup(get_overall_stats)

\* reset() has returned; the stats file, whose write was refused, still
\* shows the attempts recorded before it
AfterResetAllZeroWitness ==
    /\ op.name = "reset"
    /\ alive
    /\ LoadStats(disk_stats).totals.correct_attempts >= 1
    /\ FlagsOf(LoadProgress(disk_progress)) = NoFlags

\* C8: mark_question_completed(k) leaves k completed, gives the same state
\* when called again, and changes neither the attempt counts, the totals,
\* the hint flags nor the completion flag of any other key.
MarkCompletedIdempotent ==
    [][(op'.name = "mark_question_completed" /\ op'.ret)
          => /\ IsCompletedIn(progress', op'.key)
             /\ \A a \in ValidCallArgs :
                   KeyOf(a) = op'.key =>
                      /\ MarkCompletedCall(progress', disk_progress', a, "ok").progress
                            = progress'
                      /\ MarkCompletedCall(progress', disk_progress', a, "ok").file
                            = disk_progress'
             /\ stats' = stats
             /\ FlagsOf(progress').hints_used = FlagsOf(progress).hints_used
             /\ \A key \in (CompletedKeys(progress) \cup CompletedKeys(progress')) \ {op'.key} :
                   IsCompletedIn(progress', key) = IsCompletedIn(progress, key)]_vars

\* a question marked completed while attempts, a hint flag and another
\* completed question are on record
MarkCompletedIdempotentWitness ==
    /\ op.name = "mark_question_completed"
    /\ op.ret
    /\ IsCompletedIn(progress, op.key)
    /\ Cardinality(FlagsOf(progress).completed) >= 2
    /\ FlagsOf(progress).hints_used # {}
    /\ stats.totals.total_attempts >= 1

\* C9: for names without "/" and a difficulty that is absent or one of the
\* four levels, two argument tuples have the same key exactly when their
\* four components are equal.
KeyIsInjective ==
    probe.name = "keys" => (probe.key_a = probe.key_b <=> probe.a = probe.b)

\* the keys of two tuples that differ only in that one has no difficulty
KeyIsInjectiveWitness ==
    /\ probe.name = "keys"
    /\ probe.a # probe.b
    /\ probe.a.difficulty = PyNone
    /\ probe.b.difficulty # PyNone
    /\ probe.a.module = probe.b.module
    /\ probe.a.topic = probe.b.topic
    /\ probe.a.question = probe.b.question

\* C10: two distinct questions that get_questions lists (distinct by kind
\* regular/prompt or by file name) are tracked under distinct keys.
ListedQuestionsHaveDistinctKeys ==
    current_page = "questions" =>
        \A p, q \in Panels :
            p # q => KeyOf(CurrentArgs(p[2])) # KeyOf(CurrentArgs(q[2]))


\* C11: whenever record_attempt returns True, the stats file holds the
\* statistics that are in memory (per-key counts and totals), also when the
\* write of the file can fail.
SavedStatsEqualMemory ==
    (op.name = "record_attempt" /\ op.ret) => disk_stats = JsonFile(stats)


\* C12: a record_attempt that returns True adds exactly 1 to
\* attempts[k].total, adds 1 to attempts[k].correct when the attempt is
\* correct and 0 otherwise, starts from 0/0 when k has no record yet, and
\* changes neither the record of any other key nor any completion or
\* hint-used flag.
RecordAttemptFrame ==
    [][\A a \in ValidCallArgs, is_correct \in BOOLEAN :
          record_attempt(a, is_correct, "ok") =>
              /\ op'.ret
              /\ KeyOf(a) \in DOMAIN stats'.attempts
              /\ stats'.attempts[KeyOf(a)].total
                    = Get(stats.attempts, KeyOf(a), [total |-> 0, correct |-> 0]).total + 1
              /\ stats'.attempts[KeyOf(a)].correct
                    = Get(stats.attempts, KeyOf(a), [total |-> 0, correct |-> 0]).correct
                        + (IF is_correct THEN 1 ELSE 0)
              /\ DOMAIN stats'.attempts = DOMAIN stats.attempts \cup {KeyOf(a)}
              /\ \A key \in DOMAIN stats.attempts \ {KeyOf(a)} :
                    stats'.attempts[key] = stats.attempts[key]
              /\ progress' = progress]_vars

\* a first, incorrect attempt recorded for a key while another key has a
\* record and a completion flag and a hint flag are set
RecordAttemptFrameWitness ==
    /\ op.name = "record_attempt"
    /\ op.ret
    /\ stats.attempts[op.key] = [total |-> 1, correct |-> 0]
    /\ \E key \in AllKeys \ {op.key} : stats.attempts[key].correct = 1
    /\ FlagsOf(progress).completed # {}
    /\ FlagsOf(progress).hints_used # {}


\* the number re.search finds in a directory name, if it finds one
HasNumber(dir_name) == \E i \in 1..Len(dir_name) : TopicDigitsAt(dir_name, i) # <<>>

\* C13: get_topics returns the topics in ascending order of the number
\* that Topic\s*(\d+) finds in the directory name, and every directory
\* without such a number after every directory that has one, whatever the
\* number is.
TopicsInNumberOrder ==
    probe.name = "topics" =>
        \A i, j \in DOMAIN probe.topics :
            i < j =>
                /\ (HasNumber(probe.topics[i][2]) /\ HasNumber(probe.topics[j][2]))
                      => sort_key(probe.topics[i]) <= sort_key(probe.topics[j])
                /\ ~(~HasNumber(probe.topics[i][2]) /\ HasNumber(probe.topics[j][2]))


\* C14: get_topics never returns a list computed under another base
\* directory than the current one: what it returns is the list of the
\* current base directory, every entry of the memo is the list of its key
\* under the current base directory, and a change of the base directory
\* empties the memo.
MemoFollowsBase ==
    [][/\ op'.name = "get_topics"
            => probe'.topics
                  = ComputedTopics[paths'.base_directory, probe'.module, probe'.difficulty].topics
       /\ \A m \in MemoModules, d \in MemoDifficulties :
             CacheKey(m, d) \in DOMAIN paths'.topic_display_names
                => paths'.topic_display_names[CacheKey(m, d)]
                      = ComputedTopics[paths'.base_directory, m, d].topics
       /\ (op'.name = "set_base_directory" /\ paths'.base_directory # paths.base_directory)
            => paths'.topic_display_names = EmptyMap]_vars

\* get_topics answers from the memo under the second base directory, with
\* a list that is not the one of the first
MemoFollowsBaseWitness ==
    /\ op.name = "get_topics"
    /\ probe.hit
    /\ paths.base_directory = Other
    /\ probe.topics # <<>>
    /\ probe.topics # ComputedTopics[Base, probe.module, probe.difficulty].topics
    /\ Base \in Contents(config.directories)


\* C15: remove_directory(d) for a directory d of the list leaves a list
\* without d; if d was the base directory, the base directory afterwards
\* is another directory of the remaining list, or None when the list is
\* empty, and otherwise it is unchanged; for a directory that is not in the
\* list it returns False and changes nothing.
RemoveDirectoryRemoves ==
    [][op'.name = "remove_directory" =>
          IF op'.key \in Contents(config.directories)
          THEN /\ op'.key \notin Contents(config'.directories)
               /\ IF op'.key = config.base_directory
                  THEN IF config'.directories = <<>>
                       THEN config'.base_directory = PyNone
                       ELSE /\ config'.base_directory \in Contents(config'.directories)
                            /\ config'.base_directory # op'.key
                  ELSE config'.base_directory = config.base_directory
          ELSE /\ ~op'.ret
               /\ config' = config
               /\ disk_config' = disk_config]_vars

\* C16: after import_config returns True every entry of directories
\* exists and base_directory is None or exists; when it returns False
\* because the file is missing, is not JSON or is not a record, the
\* configuration in memory is unchanged.
ImportKeepsExisting ==
    [][op'.name = "import_config" =>
          /\ op'.ret =>
                /\ \A directory \in Contents(config'.directories) : Exists(directory)
                /\ config'.base_directory = PyNone \/ Exists(config'.base_directory)
          /\ op'.key # <<"json">> => (~op'.ret /\ config' = config)]_vars

\* an import has dropped a directory that does not exist and has replaced
\* the base directory, which does not exist either, by the first that does
ImportKeepsExistingWitness ==
    /\ op.name = "import_config"
    /\ op.ret
    /\ config = [base_directory |-> Other, directories |-> <<Other>>]
    /\ disk_config = JsonFile(config)

\* C17: whenever an operation of ConfigManager returns True, the
\* configuration file holds the configuration that is in memory, also when
\* writes of the file can fail.
SavedConfigEqualsMemory ==
    (op.name \in {"set_base_directory", "add_directory", "remove_directory", "clear_all",
                  "import_config"} /\ op.ret)
        => (disk_config.kind = "json" /\ disk_config.data = config)


Unusable(file) == file.kind \in {"absent", "torn", "value"}

\* C18: whatever the three files hold at startup (nothing, no JSON, JSON
\* that is not a record, a record without its fields), loading does not
\* abort and gives a configuration with base_directory and directories,
\* statistics with attempts and totals and a progress record with
\* completed; a file that holds no record gives the empty default.
LoadYieldsStructure ==
    op.name = "restart" =>
        /\ op.ret
        /\ {"base_directory", "directories"} \subseteq DOMAIN config
        /\ {"attempts", "totals"} \subseteq DOMAIN stats
        /\ "completed" \in DOMAIN progress
        /\ Unusable(disk_config) => config = DefaultConfig
        /\ Unusable(disk_stats) => stats = DefaultStats
        /\ Unusable(disk_progress) => progress = DefaultProgress


\* the answer, trimmed and then lowercased, is one of the alternatives
\* between the "|" of the stored string, each trimmed and lowercased
MatchesAlternative(user_answer, correct_answer) ==
    Lower(Strip(user_answer))
        \in {Lower(Strip(option)) : option \in Range(Split(correct_answer, "|"))}

\* C19: a submitted answer is accepted if and only if, trimmed and
\* lowercased, it equals one of the "|"-separated alternatives of the
\* stored answer string, each trimmed and lowercased.
AcceptedIffAlternative ==
    probe.name = "verdict" =>
        (probe.is_correct <=> MatchesAlternative(probe.user_answer, probe.correct_answer))

\* C19 as amended: a submitted answer that is not blank is accepted if and
\* only if, trimmed and lowercased, it equals one of the alternatives; a
\* blank answer is never accepted.
NonBlankAcceptedIffAlternative ==
    probe.name = "verdict" =>
        IF Strip(probe.user_answer) = <<>> THEN ~probe.is_correct
        ELSE probe.is_correct <=> MatchesAlternative(probe.user_answer, probe.correct_answer)

\* " dog " is accepted for the stored string "Cat | DOG"
NonBlankAcceptedIffAlternativeWitness ==
    /\ probe.name = "verdict"
    /\ probe.is_correct
    /\ probe.user_answer = <<" ", "d", "o", "g", " ">>
    /\ probe.correct_answer = <<"C", "a", "t", " ", "|", " ", "D", "O", "G">>


QuestionPathOf(a) ==
    IF a.module = GettingStarted \/ ~Truthy(a.difficulty)
    THEN Base \o <<a.module, a.topic>>
            \o (IF a.q_type = "prompt" THEN <<PromptOrNot, PromptStyle>> ELSE <<Questions>>)
            \o <<a.q_file>>
    ELSE Base \o <<a.module, a.difficulty, a.topic>>
            \o (IF a.q_type = "prompt" THEN <<PromptOrNot, PromptStyle>> ELSE <<Questions>>)
            \o <<a.q_file>>

\* C21: when a directory or the question file is missing, and for any
\* question file name, the empty one included, no resolver raises and each
\* returns an empty list, an absent value or empty content, never a text
\* put in place of the content.
ResolversDegradeToEmpty ==
    probe.name = "resolved" =>
        /\ IndexError \notin probe.answer
        /\ IndexError \notin probe.hint
        /\ QuestionPathOf(probe.a) \notin FilePaths
              => /\ probe.content[1] \in {<<>>, PyNone}
                 /\ probe.content[2] \in {<<>>, PyNone}


\* C22: for a module other than Getting Started, is_module_completed returns
\* True only if at least one difficulty directory was found for the module
\* and every found difficulty is completed.
ModuleCompletedNeedsDifficulty ==
    (probe.name = "card" /\ probe.module # GettingStarted /\ probe.completed)
        => /\ probe.found # {}
           /\ \A difficulty \in probe.found : is_difficulty_completed(probe.module, difficulty)

\* C24: is_module_completed(module) is true exactly when
\* calculate_module_completion(module) is 100.
BadgeAgreesWithPercentage ==
    probe.name = "card" => (probe.completed <=> IsHundred(probe.completion_percentage))


\* C23: after any navigation, every attempt and completion that check_answer
\* records for a question of Getting Started is stored under a key whose
\* difficulty component is None, the key that calculate_module_completion
\* and is_module_completed read for that question.
GettingStartedKeyHasNone ==
    (op.name = "check_answer" /\ op.key # <<>> /\ current_module = GettingStarted)
        => \E e \in CountedQuestions(GettingStarted) :
              op.key = _create_question_key(GettingStarted, e[1], e[2],
                           QuestionLists[GettingStarted, e[1], e[2]][e[3]][2])


\* ConfigManager.get_base_directory, line 94
get_base_directory == Get(config, "base_directory", PyNone)

\* C25: after any PathManager.set_base_directory and ConfigManager operation,
\* with file writes allowed to fail, PathManager.base_directory equals
\* ConfigManager.get_base_directory(); when PathManager.set_base_directory
\* returns False the resolver's base directory and topic memo are unchanged.
PathsFollowConfig ==
    [][/\ paths'.base_directory = Get(config', "base_directory", PyNone)
       /\ (op'.name = "set_base_directory" /\ ~op'.ret) => paths' = paths]_vars

\* C26: after any sequence of set_base_directory, add_directory,
\* remove_directory, clear_all and import_config from the default
\* configuration, the directories list has no duplicate entry and
\* base_directory is None or a member of directories.
DirectoriesDistinctWithBase ==
    LET directories == Get(config, "directories", <<>>)
    IN  /\ \A i, j \in DOMAIN directories : directories[i] = directories[j] => i = j
        /\ get_base_directory = PyNone \/ get_base_directory \in Contents(directories)


\* C27: once a question is completed, its attempt counts (total and correct)
\* no longer change through check_answer, show_hint or a re-rendering of the
\* questions page, until reset.
CompletedCountsFrozen ==
    [][\A key \in DOMAIN stats.attempts :
          (IsCompletedIn(progress, key)
              /\ op'.name \in {"check_answer", "show_hint", "navigate"})
              => /\ key \in DOMAIN stats'.attempts
                 /\ stats'.attempts[key] = stats.attempts[key]]_vars


\* the number of attempts the hint of a question costs
ExpectedPenalty(difficulty, hint_content) ==
    IF ~Truthy(hint_content) THEN 0
    ELSE IF difficulty = Intermediate THEN 1
    ELSE IF difficulty = Advanced THEN 3
    ELSE 0

CountsOf(st, key) == Get(st.attempts, key, [total |-> 0, correct |-> 0])

\* C28: show_hint for a question with an available hint records exactly 1
\* incorrect attempt when the current difficulty is Intermediate, exactly 3
\* when it is Advanced and none for any other difficulty; it never increases
\* a correct count, never changes a completion flag, and records nothing
\* when no hint is available.
HintCostsByDifficulty ==
    probe.name = "shown" =>
        LET key == KeyOf(probe.a)
            n == ExpectedPenalty(probe.a.difficulty, probe.hint_content)
        IN  /\ CountsOf(stats, key).total = CountsOf(probe.stats, key).total + n
            /\ CountsOf(stats, key).correct = CountsOf(probe.stats, key).correct
            /\ stats.totals.total_attempts = probe.stats.totals.total_attempts + n
            /\ stats.totals.correct_attempts = probe.stats.totals.correct_attempts
            /\ DOMAIN stats.attempts \subseteq (DOMAIN probe.stats.attempts) \cup {key}
            /\ n = 0 => stats = probe.stats
            /\ progress = probe.progress

HintCostsByDifficultyWitness ==
    /\ probe.name = "shown"
    /\ probe.a.difficulty = Advanced
    /\ Truthy(probe.hint_content)
    /\ IsCompletedIn(progress, KeyOf(probe.a))
    /\ CountsOf(stats, KeyOf(probe.a)) = [total |-> 4, correct |-> 1]


\* C29: check_answer records exactly one attempt when the submitted answer
\* is non-blank and an answer string is resolved for the question, and
\* records no attempt and changes no progress state when the submitted
\* answer is blank or whitespace only, or when no answer file is resolved.
CheckAnswerRecordsOnce ==
    [][\A panel \in Panels, user_answer \in UserAnswers :
          check_answer(panel, user_answer, {"ok"}) =>
              LET key == KeyOf(CurrentArgs(panel[2]))
                  resolved == CorrectAnswers[current_module, current_difficulty,
                                             current_topic, panel[2]]
              IN  IF Strip(user_answer) # <<>> /\ PyNone \notin resolved
                  THEN /\ CountsOf(stats', key).total = CountsOf(stats, key).total + 1
                       /\ stats'.totals.total_attempts = stats.totals.total_attempts + 1
                       /\ \A other \in (DOMAIN stats'.attempts) \ {key} :
                             /\ other \in DOMAIN stats.attempts
                             /\ stats'.attempts[other] = stats.attempts[other]
                  ELSE UNCHANGED <<stats, progress, disk_stats, disk_progress>>]_vars

CheckAnswerRecordsOnceWitness ==
    /\ op.name = "check_answer"
    /\ op.key # <<>>
    /\ ~op.ret
    /\ CountsOf(stats, op.key) = [total |-> 2, correct |-> 1]


\* the calls with an empty or absent module, topic or question
Incomplete ==
    {a \in GuardArgs : \E x \in {a.module, a.topic, a.question} : x \in {PyNone, <<>>}}

\* C30: record_attempt, mark_question_completed and mark_hint_used called
\* with an empty or absent module, topic or question return False and leave
\* the statistics, the completion flags, the hint flags and the persisted
\* records unchanged; is_question_completed and is_hint_used return False
\* for such arguments.
IncompleteCallsDoNothing ==
    /\ [](\A a \in Incomplete :
             /\ ~is_question_completed(a.module, a.difficulty, a.topic, a.question)
             /\ ~is_hint_used(a.module, a.difficulty, a.topic, a.question))
    /\ [][\A a \in Incomplete :
             (\/ \E is_correct \in BOOLEAN : record_attempt(a, is_correct, "ok")
              \/ mark_question_completed(a, "ok")
              \/ mark_hint_used(a, "ok"))
                 => /\ ~op'.ret
                    /\ UNCHANGED <<stats, progress, disk_stats, disk_progress>>]_vars

IncompleteCallsDoNothingWitness ==
    /\ op.name = "mark_hint_used"
    /\ ~op.ret
    /\ stats.totals.total_attempts = 2
    /\ CompletedKeys(progress) # {}
    /\ disk_progress.kind = "json"

=============================================================================
